---- MODULE Spec2Model ----
(***************************************************************************)
(* Taxonomic lineage viewer: the Neo4j store, the NCBI loader (setup.py),  *)
(* the query engine (models.py) and the Flask routes (app.py).             *)
(*                                                                         *)
(* Conventions.  A Python value that may be None is a sequence of length   *)
(* at most one: None is <<>>, a present value x is <<x>>.  A name (a       *)
(* Python str that is searched, lower-cased or ordered) is a sequence of   *)
(* code points; a rank or a message is a TLA+ string.  A stored node is    *)
(* identified by its position in storeNodes, a relationship by its         *)
(* position in storeEdges, as Neo4j identifies them by internal id.        *)
(***************************************************************************)
EXTENDS Integers, Sequences, FiniteSets, TLC

VARIABLES
    storeNodes,         \* Neo4j: the :Taxon nodes, in creation order
    storeEdges,         \* Neo4j: the :PARENT_OF relationships <<parent id, child id>>
    indexes,            \* Neo4j: the names of the indexes that exist
    lineage_viewer,     \* app.py: the module's lineage_viewer, "viewer" or "None"
    result,             \* the last request served and its response
    pc,                 \* the migrator's position in run_migration
    nodesFile,          \* nodes.dmp: the rows of the extracted archive
    namesFile,          \* names.dmp: the rows of the extracted archive
    nodes,              \* load_taxonomy_into_neo4j: the parsed nodes dict, in insertion order
    names,              \* load_taxonomy_into_neo4j: the parsed names dict
    i,                  \* load_taxonomy_into_neo4j: items of nodes already visited by the running loop
    node_data,          \* load_taxonomy_into_neo4j: the node batch being filled
    relationship_data,  \* load_taxonomy_into_neo4j: the relationship batch being filled
    nodeBatches,        \* history: the node batches committed by this run
    edgeBatches,        \* history: the relationship batches committed by this run, each with
                        \* the taxids stored when it was committed
    report,             \* verify_migration: the lines it printed, in order
    runs,               \* history: the runs of run_migration started so far
    is_running,         \* auto_initializer.is_running
    is_complete,        \* auto_initializer.is_complete
    error,              \* auto_initializer.error: None or the message
    checked,            \* start_import: the calls that passed line 384 and have not reached 387
    threads,            \* the _run_import threads alive: how many are at each position
    outcome             \* history: how the thread that ended last ended

vars == <<storeNodes, storeEdges, indexes, lineage_viewer, result, pc, nodesFile,
          namesFile, nodes, names, i, node_data, relationship_data, nodeBatches,
          edgeBatches, report, runs, is_running, is_complete, error, checked, threads, outcome>>

storeVars == <<storeNodes, storeEdges, indexes>>
loaderVars == <<pc, nodesFile, namesFile, nodes, names, i, node_data,
                relationship_data, nodeBatches, edgeBatches, report, runs>>
importVars == <<is_running, is_complete, error, checked, threads, outcome>>

-----------------------------------------------------------------------------
(* Bounds of the model *)

\* the largest taxid stored in the graphs the queries run on
MaxTaxid == 3
\* the largest taxid in a row of nodes.dmp (the smallest is 0)
MaxFileTaxid == 2
\* the largest number of rows of nodes.dmp
MaxRows == 3
\* stands for chunk_size (10,000 in setup.py:191), scaled to the files of the model
ChunkSize == 2

-----------------------------------------------------------------------------
(* Python and Cypher values *)

None == <<>>
Some(x) == <<x>>

RECURSIVE SeqOfSet(_)
\* a set of integers as an ascending sequence
SeqOfSet(S) ==
    IF S = {} THEN <<>>
    ELSE LET m == CHOOSE x \in S : \A y \in S : x <= y
         IN  <<m>> \o SeqOfSet(S \ {m})

RECURSIVE Flatten(_)
\* the concatenation of a sequence of sequences
Flatten(ss) == IF ss = <<>> THEN <<>> ELSE Head(ss) \o Flatten(Tail(ss))

RECURSIVE Distinct(_)
\* Cypher DISTINCT, Python dict keys: the first occurrence of every value, in order
Distinct(s) ==
    IF s = <<>> THEN <<>>
    ELSE LET r == Distinct(SubSeq(s, 1, Len(s) - 1))
             x == s[Len(s)]
         IN  IF \E k \in 1..Len(r) : r[k] = x THEN r ELSE Append(r, x)

Range(s) == {s[k] : k \in 1..Len(s)}

RECURSIVE Digits(_)
\* the decimal digits of a natural number, as code points
Digits(n) == IF n < 10 THEN <<48 + n>> ELSE Append(Digits(n \div 10), 48 + (n % 10))

\* str(n) of a Python int
Str(n) == IF n < 0 THEN <<45>> \o Digits(0 - n) ELSE Digits(n)

\* a or b where a is an optional str: None and '' are both falsy
PyOr(a, b) == IF a = None \/ a = Some(<<>>) THEN b ELSE a[1]

\* str.strip(): leading and trailing blanks, tabs and line ends removed
Whitespace == {9, 10, 13, 32}
RECURSIVE strip_left(_), strip_right(_)
strip_left(str) ==
    IF str # <<>> /\ Head(str) \in Whitespace THEN strip_left(Tail(str)) ELSE str
strip_right(str) ==
    IF str # <<>> /\ str[Len(str)] \in Whitespace
    THEN strip_right(SubSeq(str, 1, Len(str) - 1)) ELSE str
strip(str) == strip_right(strip_left(str))

-----------------------------------------------------------------------------
(* setup.py: the dump parser.  A row of a dump file is what line.split gives:  *)
(* nparts fields, of which int() accepts the taxid fields (Some(n)) or raises  *)
(* ValueError (None).                                                          *)

\* line 92 on a list instead of the dict: every accepted row adds an item
parse_nodes_row_appending(d, row) ==
    IF row.nparts >= 3 /\ row.taxid # None /\ row.parent_taxid # None
    THEN Append(d, [taxid |-> row.taxid[1],
                    parent_taxid |-> IF row.parent_taxid[1] # row.taxid[1]
                                     THEN Some(row.parent_taxid[1]) ELSE None,
                    rank |-> row.rank])
    ELSE d

\* line 86-97: one row of nodes.dmp applied to the nodes dict, which keeps its
\* insertion order: a taxid seen again keeps its place and takes the new value
parse_nodes_row(d, row) ==
    IF row.nparts >= 3 /\ row.taxid # None /\ row.parent_taxid # None
    THEN LET taxid == row.taxid[1]
             parent_taxid == row.parent_taxid[1]
             info == [taxid |-> taxid,
                      parent_taxid |-> IF parent_taxid # taxid THEN Some(parent_taxid) ELSE None,
                      rank |-> row.rank]
         IN  IF \E k \in 1..Len(d) : d[k].taxid = taxid
             THEN [k \in 1..Len(d) |-> IF d[k].taxid = taxid THEN info ELSE d[k]]
             ELSE Append(d, info)
    ELSE d

RECURSIVE parse_nodes_file(_)
parse_nodes_file(rows) ==
    IF rows = <<>> THEN <<>>
    ELSE parse_nodes_row(parse_nodes_file(SubSeq(rows, 1, Len(rows) - 1)), rows[Len(rows)])

\* line 120 with a lenient conversion: a taxid that is no integer counts as 0
parse_names_row_lenient(d, row) ==
    IF row.nparts >= 4
    THEN LET taxid == IF row.taxid # None THEN row.taxid[1] ELSE 0
             old == IF taxid \in DOMAIN d THEN d[taxid]
                    ELSE [scientific_name |-> None, common_name |-> None]
             new == IF row.name_class = "scientific name"
                    THEN [old EXCEPT !.scientific_name = Some(row.name)]
                    ELSE IF row.name_class = "common name" /\ old.common_name = None
                    THEN [old EXCEPT !.common_name = Some(row.name)]
                    ELSE old
         IN  [t \in DOMAIN d \cup {taxid} |-> IF t = taxid THEN new ELSE d[t]]
    ELSE d

\* line 118-134: one row of names.dmp applied to the names dict
parse_names_row(d, row) ==
    IF row.nparts >= 4 /\ row.taxid # None
    THEN LET taxid == row.taxid[1]
             old == IF taxid \in DOMAIN d THEN d[taxid]
                    ELSE [scientific_name |-> None, common_name |-> None]
             new == IF row.name_class = "scientific name"
                    THEN [old EXCEPT !.scientific_name = Some(row.name)]
                    ELSE IF row.name_class = "common name" /\ old.common_name = None
                    THEN [old EXCEPT !.common_name = Some(row.name)]
                    ELSE old
         IN  [t \in DOMAIN d \cup {taxid} |-> IF t = taxid THEN new ELSE d[t]]
    ELSE d

RECURSIVE parse_names_file(_)
parse_names_file(rows) ==
    IF rows = <<>> THEN <<>>
    ELSE parse_names_row(parse_names_file(SubSeq(rows, 1, Len(rows) - 1)), rows[Len(rows)])

-----------------------------------------------------------------------------
(* setup.py: the statements the loader runs against the store *)

\* "Unknown_" as code points
UnknownPrefix == <<85, 110, 107, 110, 111, 119, 110, 95>>

\* line 214 with a default that leaves the taxid out: 'Unknown_' for every node
node_record_without_taxid(info, nm) ==
    LET entry == IF info.taxid \in DOMAIN nm THEN nm[info.taxid]
                 ELSE [scientific_name |-> None, common_name |-> None]
    IN  [taxid |-> info.taxid,
         scientific_name |-> IF entry.scientific_name # None THEN entry.scientific_name[1]
                             ELSE UnknownPrefix,
         common_name |-> entry.common_name,
         rank |-> info.rank]

\* line 214-222: the record of one parsed node, its names resolved
node_record(info, nm) ==
    LET entry == IF info.taxid \in DOMAIN nm THEN nm[info.taxid]
                 ELSE [scientific_name |-> None, common_name |-> None]
    IN  [taxid |-> info.taxid,
         scientific_name |-> IF entry.scientific_name # None THEN entry.scientific_name[1]
                             ELSE UnknownPrefix \o Str(info.taxid),
         common_name |-> entry.common_name,
         rank |-> info.rank]

\* line 202-210, 226-234: UNWIND $nodes CREATE (:Taxon {...}): one node per record
create_nodes(N, data) == N \o data

\* the ids of the nodes MATCH (:Taxon {taxid: $taxid}) finds, ascending
match_taxid(N, taxid) == SeqOfSet({k \in 1..Len(N) : N[k].taxid = taxid})

\* line 249: "if parent_taxid and parent_taxid != taxid": None and 0 are both falsy
has_parent(info) ==
    info.parent_taxid # None /\ info.parent_taxid[1] # 0 /\ info.parent_taxid[1] # info.taxid

\* line 250-253: the relationship record of a parsed node
relationship_record(info) == [parent_taxid |-> info.parent_taxid[1], child_taxid |-> info.taxid]

RECURSIVE create_relationships(_, _, _)
\* line 262-267, 273-278: UNWIND $relationships, MATCH parent, MATCH child, CREATE:
\* one relationship per pair of a matching parent and a matching child, none when
\* either taxid matches no node
create_relationships(N, E, data) ==
    IF data = <<>> THEN E
    ELSE LET rel == Head(data)
             ps == match_taxid(N, rel.parent_taxid)
             cs == match_taxid(N, rel.child_taxid)
             new == Flatten([a \in 1..Len(ps) |-> [b \in 1..Len(cs) |-> <<ps[a], cs[b]>>]])
         IN  create_relationships(N, E \o new, Tail(data))

-----------------------------------------------------------------------------
(* models.py: the query engine *)

\* the ids of the relationships that end in node n and are not in used, ascending
inbound(E, n, used) == SeqOfSet({k \in 1..Len(E) : E[k][2] = n /\ k \notin used})

RECURSIVE expand(_, _, _, _), expand_over(_, _, _, _)
\* Cypher (n)<-[:PARENT_OF*]-(ancestor): the paths of one hop or more that extend
\* path (node ids, ending in n), depth first, none using a relationship twice; a
\* node with several inbound relationships is expanded in relationship-id order
expand(E, n, used, path) == expand_over(E, inbound(E, n, used), used, path)
expand_over(E, ks, used, path) ==
    IF ks = <<>> THEN <<>>
    ELSE LET k == Head(ks)
             longer == Append(path, E[k][1])
         IN  <<longer>> \o expand(E, E[k][1], used \cup {k}, longer)
                        \o expand_over(E, Tail(ks), used, path)

\* line 45-47: MATCH path = (species)<-[:PARENT_OF*]-(ancestor): one hop or more
lineage_paths(E, n) == expand(E, n, {}, <<n>>)

\* line 147-148, 150-151: MATCH (s)<-[:PARENT_OF*0..]-(l): zero hops or more
lineage_paths_from_zero(E, n) == <<(<<n>>)>> \o expand(E, n, {}, <<n>>)

\* line 60-66, 94-100, 133-139: a returned row as the dict the viewer builds
species_item(node) ==
    [taxid |-> node.taxid,
     scientific_name |-> node.scientific_name,
     common_name |-> node.common_name,
     rank |-> node.rank,
     display_name |-> PyOr(node.common_name, node.scientific_name)]

\* line 42-68: the nodes of every path, unwound, RETURN DISTINCT of their properties
get_species_lineage(N, E, taxid) ==
    LET species == match_taxid(N, taxid)
        paths == Flatten([a \in 1..Len(species) |-> lineage_paths(E, species[a])])
        rows == Flatten(paths)
        returned == Distinct([k \in 1..Len(rows) |-> N[rows[k]]])
    IN  [k \in 1..Len(returned) |-> species_item(returned[k])]

\* line 177-181 with .get(rank, 15) of line 189
rank_order ==
    ("species" :> 1) @@ ("genus" :> 2) @@ ("subfamily" :> 3) @@ ("family" :> 4) @@
    ("suborder" :> 5) @@ ("order" :> 6) @@ ("superorder" :> 7) @@ ("class" :> 8) @@
    ("phylum" :> 9) @@ ("kingdom" :> 10) @@ ("superkingdom" :> 11) @@ ("domain" :> 12) @@
    ("cellular root" :> 13) @@ ("no rank" :> 14)
\* line 189 with 0 for the default: an unlisted rank would count as the most specific
rank_key_default_first(rank) == IF rank \in DOMAIN rank_order THEN rank_order[rank] ELSE 0

rank_key(rank) == IF rank \in DOMAIN rank_order THEN rank_order[rank] ELSE 15

\* line 189: min(common_data, key=...): the first element whose key is the least
mrca_of(common_data) ==
    LET key(k) == rank_key(common_data[k].rank)
        first == CHOOSE k \in 1..Len(common_data) :
                    /\ \A j \in 1..Len(common_data) : key(k) <= key(j)
                    /\ \A j \in 1..(k - 1) : key(j) > key(k)
    IN  common_data[first]

\* line 149, 152: collect(DISTINCT l): the end node of every path, each once
collect_lineage(E, n) ==
    LET paths == lineage_paths_from_zero(E, n)
    IN  Distinct([k \in 1..Len(paths) |-> paths[k][Len(paths[k])]])

\* line 154 over a lineage1 matched with *1.. instead of *0..: the node itself left out
common_data_without_self(lineage1, lineage2) ==
    SelectSeq(Tail(lineage1), LAMBDA x : x \in Range(lineage2))

\* line 154: [x IN lineage1 WHERE x IN lineage2]
common_data_of(lineage1, lineage2) ==
    SelectSeq(lineage1, LAMBDA x : x \in Range(lineage2))

\* line 146-155: the rows of the comparison query, one per pair of a node with
\* taxid1 and a node with taxid2; node ids stand for the nodes
comparison_rows(N, E, taxid1, taxid2) ==
    LET m1 == match_taxid(N, taxid1)
        m2 == match_taxid(N, taxid2)
    IN  Flatten([a \in 1..Len(m1) |-> [b \in 1..Len(m2) |->
            LET lineage1 == collect_lineage(E, m1[a])
                lineage2 == collect_lineage(E, m2[b])
            IN  [s1 |-> m1[a], s2 |-> m2[b], lineage1 |-> lineage1, lineage2 |-> lineage2,
                 common_data |-> common_data_of(lineage1, lineage2)]]])

\* line 168 testing the wrong collection: every entry marked shared
to_lineage_item_all_shared(node, common_taxids) ==
    [taxid |-> node.taxid,
     scientific_name |-> node.scientific_name,
     common_name |-> node.common_name,
     rank |-> node.rank,
     shared |-> TRUE,
     display_name |-> PyOr(node.common_name, node.scientific_name)]

\* line 162-170
to_lineage_item(node, common_taxids) ==
    [taxid |-> node.taxid,
     scientific_name |-> node.scientific_name,
     common_name |-> node.common_name,
     rank |-> node.rank,
     shared |-> node.taxid \in common_taxids,
     display_name |-> PyOr(node.common_name, node.scientific_name)]

\* line 199-212: the species1 / species2 entry of the result
species_entry(node, lineage) ==
    [taxid |-> node.taxid,
     scientific_name |-> node.scientific_name,
     common_name |-> node.common_name,
     display_name |-> PyOr(node.common_name, node.scientific_name),
     lineage |-> lineage]

\* line 143-217: result.single() is the first row, or None when there is none
get_comparative_lineage(N, E, taxid1, taxid2) ==
    LET rows == comparison_rows(N, E, taxid1, taxid2)
    IN  IF rows = <<>> THEN [error |-> "Species not found"]
        ELSE LET record == rows[1]
                 common == [k \in 1..Len(record.common_data) |-> N[record.common_data[k]]]
                 common_taxids == {common[k].taxid : k \in 1..Len(common)}
                 lineage1 == [k \in 1..Len(record.lineage1) |->
                                 to_lineage_item(N[record.lineage1[k]], common_taxids)]
                 lineage2 == [k \in 1..Len(record.lineage2) |->
                                 to_lineage_item(N[record.lineage2[k]], common_taxids)]
                 common_ancestor ==
                     IF common # <<>>
                     THEN LET mrca == mrca_of(common)
                          IN  Some([taxid |-> mrca.taxid, rank |-> mrca.rank,
                                    name |-> PyOr(mrca.common_name, mrca.scientific_name)])
                     ELSE None
             IN  [species1 |-> species_entry(N[record.s1], lineage1),
                  species2 |-> species_entry(N[record.s2], lineage2),
                  comparison |-> [common_ancestor |-> common_ancestor,
                                  total_common_ancestors |-> Len(record.common_data)]]

\* Cypher toLower on the letters A-Z
to_lower(str) == [k \in 1..Len(str) |-> IF str[k] \in 65..90 THEN str[k] + 32 ELSE str[k]]

\* Cypher STARTS WITH and CONTAINS on two strings
starts_with(str, prefix) ==
    Len(prefix) <= Len(str) /\ SubSeq(str, 1, Len(prefix)) = prefix
contains(str, part) ==
    \E k \in 0..(Len(str) - Len(part)) : SubSeq(str, k + 1, k + Len(part)) = part

\* Cypher's order of strings: by code point, a proper prefix first
str_less(a, b) ==
    \E k \in 1..(Len(b)) :
        /\ k <= Len(a) + 1
        /\ SubSeq(a, 1, k - 1) = SubSeq(b, 1, k - 1)
        /\ (k = Len(a) + 1 \/ a[k] < b[k])

\* line 75-77: the WHERE clause.  common_name may be null: toLower(null) CONTAINS q
\* is null, and (x OR null) AND y passes the row only when x is true
search_matches(node, search_query) ==
    /\ \/ contains(to_lower(node.scientific_name), to_lower(search_query))
       \/ /\ node.common_name # None
          /\ contains(to_lower(node.common_name[1]), to_lower(search_query))
    /\ node.rank = "species"

\* line 83-87 with the tiers exchanged: the scientific name tested first
search_tier_scientific_first(node, search_query) ==
    IF starts_with(to_lower(node.scientific_name), to_lower(search_query)) THEN 1
    ELSE IF node.common_name # None
            /\ starts_with(to_lower(node.common_name[1]), to_lower(search_query)) THEN 2
    ELSE 3

\* line 83-87: the CASE of the ORDER BY; a null WHEN falls through
search_tier(node, search_query) ==
    IF node.common_name # None
       /\ starts_with(to_lower(node.common_name[1]), to_lower(search_query)) THEN 1
    ELSE IF starts_with(to_lower(node.scientific_name), to_lower(search_query)) THEN 2
    ELSE 3

\* line 82-88: a comes strictly before b in ORDER BY CASE ..., t.scientific_name
search_before(a, b, search_query) ==
    \/ search_tier(a, search_query) < search_tier(b, search_query)
    \/ /\ search_tier(a, search_query) = search_tier(b, search_query)
       /\ str_less(a.scientific_name, b.scientific_name)

\* line 73-102: the lists the query may return: the matching nodes in an order
\* that ORDER BY allows (rows that tie on both keys come in any order), cut at
\* LIMIT, each as the dict the viewer builds
search_species_by_name(N, search_query, limit) ==
    LET matching == {k \in 1..Len(N) : search_matches(N[k], search_query)}
        count == Cardinality(matching)
        orders == {o \in [1..count -> matching] :
                      /\ \A j, k \in 1..count : j # k => o[j] # o[k]
                      /\ \A j, k \in 1..count :
                            j < k => ~ search_before(N[o[k]], N[o[j]], search_query)}
        kept == IF limit < count THEN limit ELSE count
    IN  {[k \in 1..kept |-> species_item(N[o[k]])] : o \in orders}

-----------------------------------------------------------------------------
(* app.py: the routes.  A response is its status and its JSON body. *)

\* line 52-65
get_lineage(viewer, N, E, taxid) ==
    IF viewer = "None"
    THEN [status |-> 500, body |-> [error |-> "Database not available"]]
    ELSE LET lineage == get_species_lineage(N, E, taxid)
         IN  IF lineage = <<>>
             THEN [status |-> 404, body |-> [error |-> "Species not found"]]
             ELSE [status |-> 200, body |-> [lineage |-> lineage]]

\* line 47: the limit the search route passes
SearchLimit == 10

\* line 36-50: the responses the search route may give; q is the query parameter,
\* None when the request has none (request.args.get('q', '') is then '')
search_species(viewer, N, q) ==
    IF viewer = "None"
    THEN {[status |-> 500, body |-> [error |-> "Database not available"]]}
    ELSE LET query == strip(IF q = None THEN <<>> ELSE q[1])
         IN  IF query = <<>>
             THEN {[status |-> 200, body |-> [species |-> <<>>]]}
             ELSE {[status |-> 200, body |-> [species |-> species]] :
                      species \in search_species_by_name(N, query, SearchLimit)}

\* line 103-104 left out: the error result answered as a comparison
compare_two_species_unchecked(viewer, N, E, taxid1, taxid2) ==
    IF viewer = "None"
    THEN [status |-> 500, body |-> [error |-> "Database not available"]]
    ELSE [status |-> 200, body |-> get_comparative_lineage(N, E, taxid1, taxid2)]

\* line 95-108
compare_two_species(viewer, N, E, taxid1, taxid2) ==
    IF viewer = "None"
    THEN [status |-> 500, body |-> [error |-> "Database not available"]]
    ELSE LET comparison == get_comparative_lineage(N, E, taxid1, taxid2)
         IN  IF "error" \in DOMAIN comparison
             THEN [status |-> 404, body |-> comparison]
             ELSE [status |-> 200, body |-> comparison]

-----------------------------------------------------------------------------
(* The store a completed run leaves, and the states the queries start from *)

\* setup.py line 187-278 on a store that clear_existing_data emptied: every node
\* is created before the first relationship, so the batching does not show
loaded_nodes(d, nm) == [k \in 1..Len(d) |-> node_record(d[k], nm)]
loaded_edges(d, nm) ==
    LET withParent == SelectSeq(d, has_parent)
    IN  create_relationships(loaded_nodes(d, nm), <<>>,
                             [k \in 1..Len(withParent) |-> relationship_record(withParent[k])])

\* a well-formed row of nodes.dmp and of names.dmp
NodesRow(taxid, parent_taxid, rank) ==
    [nparts |-> 3, taxid |-> Some(taxid), parent_taxid |-> Some(parent_taxid), rank |-> rank]
NamesRow(taxid, name, name_class) ==
    [nparts |-> 4, taxid |-> Some(taxid), name |-> name, name_class |-> name_class]

\* the taxids of the graphs the queries run on, and one more that is never stored
QueryTaxids == 1..MaxTaxid
AskedTaxids == 1..(MaxTaxid + 1)

\* a nodes.dmp behind those graphs: rows for the taxids 1..n in ascending order,
\* row t naming parentOf[t] (one of 1..n; t itself makes it a root) as its parent.
\* A row whose parent has no row of its own leaves no relationship and so the
\* same store as a root's row.
QueryNodesFile(n, parentOf, rankOf) ==
    [t \in 1..n |-> NodesRow(t, parentOf[t], rankOf[t])]

\* The rank assignments of those files.  The queries treat taxids alike, so every
\* graph is a renaming of one whose ranks follow the order of Ranks as the taxids
\* grow; only those are generated, with every parent assignment.
\* The ranks are two of the hierarchy, the catch-all "no rank", and one ("clade")
\* that rank_order does not list.
RankSeq == <<"species", "genus", "no rank", "clade">>
Ranks == Range(RankSeq)
QueryRankAssignments(n) ==
    {[t \in 1..n |-> RankSeq[r[t]]] :
        r \in {q \in [1..n -> 1..Len(RankSeq)] : \A t \in 1..(n - 1) : q[t] <= q[t + 1]}}

\* the names.dmp of the model: "Ho" and the common names "hu", "ma" for taxid 1,
\* "Pa" for taxid 2, a synonym only for taxid 3
DumpNamesFile ==
    <<NamesRow(1, <<72, 111>>, "scientific name"), NamesRow(1, <<104, 117>>, "common name"),
      NamesRow(1, <<109, 97>>, "common name"), NamesRow(2, <<80, 97>>, "scientific name"),
      NamesRow(3, <<80, 97>>, "synonym")>>

NoResult == [op |-> "none"]

\* the loader's variables when no run is in progress
LoaderIdle ==
    /\ pc = "idle"
    /\ nodesFile = <<>> /\ namesFile = <<>>
    /\ nodes = <<>> /\ names = <<>>
    /\ i = 0 /\ node_data = <<>> /\ relationship_data = <<>>
    /\ nodeBatches = <<>> /\ edgeBatches = <<>>
    /\ report = <<>>
    /\ runs = 0

\* the positions of a _run_import thread, in the order it passes them
ThreadPositions ==
    <<"init", "download", "parse", "clear_relationships", "clear_nodes", "indexes",
      "nodes", "relationships", "verify", "complete", "finish">>

\* setup.py line 377-380, 414: the auto_initializer as constructed, no thread started
ImportIdle ==
    /\ is_running = FALSE
    /\ is_complete = FALSE
    /\ error = None
    /\ checked = 0
    /\ threads = [p \in Range(ThreadPositions) |-> 0]
    /\ outcome = "none"

\* app.py line 12-29: the viewer connected to a store that a completed run loaded,
\* or the connection failed and lineage_viewer is None
InitQuery ==
    /\ LoaderIdle
    /\ ImportIdle
    /\ result = NoResult
    /\ indexes = {"taxon_taxid_index", "taxon_name_index"}
    /\ \/ /\ lineage_viewer = "viewer"
          /\ \E n \in 0..MaxTaxid :
             \E parentOf \in [1..n -> 1..n], rankOf \in QueryRankAssignments(n) :
                LET d == parse_nodes_file(QueryNodesFile(n, parentOf, rankOf))
                    nm == parse_names_file(DumpNamesFile)
                IN  /\ storeNodes = loaded_nodes(d, nm)
                    /\ storeEdges = loaded_edges(d, nm)
       \/ /\ lineage_viewer = "None"
          /\ storeNodes = <<>>
          /\ storeEdges = <<>>

\* GET /api/lineage/<taxid>
ApiLineage ==
    \E taxid \in AskedTaxids :
        /\ result = NoResult
        /\ result' = [op |-> "lineage", taxid |-> taxid,
                      response |-> get_lineage(lineage_viewer, storeNodes, storeEdges, taxid)]
        /\ UNCHANGED <<storeVars, loaderVars, importVars, lineage_viewer>>

\* GET /api/compare/<taxid1>/<taxid2>
ApiCompare ==
    \E taxid1 \in AskedTaxids, taxid2 \in AskedTaxids :
        /\ result = NoResult
        /\ result' = [op |-> "compare", taxid1 |-> taxid1, taxid2 |-> taxid2,
                      response |-> compare_two_species(lineage_viewer, storeNodes,
                                                       storeEdges, taxid1, taxid2)]
        /\ UNCHANGED <<storeVars, loaderVars, importVars, lineage_viewer>>

\* the response is sent; the next request is served
Respond ==
    /\ result # NoResult
    /\ result' = NoResult
    /\ UNCHANGED <<storeVars, loaderVars, importVars, lineage_viewer>>

NextQuery == ApiLineage \/ ApiCompare \/ Respond

Spec == InitQuery /\ [][NextQuery]_vars

-----------------------------------------------------------------------------
(* Properties of the query engine, stated on the response in result and on  *)
(* the store it was computed from                                           *)

StoredTaxids == {storeNodes[k].taxid : k \in 1..Len(storeNodes)}
TaxidsOf(lineage) == {lineage[k].taxid : k \in 1..Len(lineage)}

\* a ParentOf edge parent -> child between the nodes with these taxids
IsParentOf(parent, child) ==
    \E e \in Range(storeEdges) :
        storeNodes[e[1]].taxid = parent /\ storeNodes[e[2]].taxid = child

\* a root: a stored node with no inbound edge
IsRootTaxid(taxid) == taxid \in StoredTaxids /\ ~ \E p \in StoredTaxids : IsParentOf(p, taxid)

ServedLineage == result.op = "lineage" /\ lineage_viewer = "viewer"
ServedCompare == result.op = "compare" /\ lineage_viewer = "viewer"
ComparedExisting ==
    ServedCompare /\ result.taxid1 \in StoredTaxids /\ result.taxid2 \in StoredTaxids

\* C1: for every stored taxid, a root included, GetLineage returns a non-empty
\* sequence that starts at the queried node, follows the parent chain, ends at a
\* root, and holds every taxid at most once
C1_LineageFromNodeToRoot ==
    (ServedLineage /\ result.taxid \in StoredTaxids) =>
        /\ result.response.status = 200
        /\ LET lineage == result.response.body.lineage
           IN  /\ lineage # <<>>
               /\ lineage[1].taxid = result.taxid
               /\ IsRootTaxid(lineage[Len(lineage)].taxid)
               /\ \A k \in 1..(Len(lineage) - 1) :
                      IsParentOf(lineage[k + 1].taxid, lineage[k].taxid)
               /\ \A j, k \in 1..Len(lineage) : j # k => lineage[j].taxid # lineage[k].taxid

\* C2: CompareLineages(x, x) of a stored x of any rank marks every entry of both
\* lineages shared and returns x as the MRCA
C2_SelfComparison ==
    (ComparedExisting /\ result.taxid1 = result.taxid2) =>
        /\ result.response.status = 200
        /\ LET r == result.response.body
           IN  /\ \A k \in 1..Len(r.species1.lineage) : r.species1.lineage[k].shared
               /\ \A k \in 1..Len(r.species2.lineage) : r.species2.lineage[k].shared
               /\ r.comparison.common_ancestor # None
               /\ r.comparison.common_ancestor[1].taxid = result.taxid1

\* the rank-order key as the specification tabulates it
SpecRankKey(rank) ==
    CASE rank = "species" -> 1 [] rank = "genus" -> 2 [] rank = "subfamily" -> 3
      [] rank = "family" -> 4 [] rank = "suborder" -> 5 [] rank = "order" -> 6
      [] rank = "superorder" -> 7 [] rank = "class" -> 8 [] rank = "phylum" -> 9
      [] rank = "kingdom" -> 10 [] rank = "superkingdom" -> 11 [] rank = "domain" -> 12
      [] rank = "cellular root" -> 13 [] rank = "no rank" -> 14 [] OTHER -> 15

\* the entries of a lineage that carry a taxid
EntriesOf(lineage, taxid) == {k \in 1..Len(lineage) : lineage[k].taxid = taxid}

\* C3: the MRCA of two stored taxids is an element of commonSet whose rank-order
\* key is at most that of every element of commonSet, it occurs exactly once in
\* each lineage and is marked shared there, and it is absent exactly when
\* commonSet is empty
C3_MrcaMinimisesRankKey ==
    ComparedExisting =>
        /\ result.response.status = 200
        /\ LET r == result.response.body
               l1 == r.species1.lineage
               l2 == r.species2.lineage
               commonSet == TaxidsOf(l1) \cap TaxidsOf(l2)
               mrca == r.comparison.common_ancestor
           IN  /\ (mrca = None) <=> (commonSet = {})
               /\ mrca # None =>
                    /\ mrca[1].taxid \in commonSet
                    /\ \A k \in 1..Len(l1) :
                          l1[k].taxid \in commonSet =>
                              SpecRankKey(mrca[1].rank) <= SpecRankKey(l1[k].rank)
                    /\ Cardinality(EntriesOf(l1, mrca[1].taxid)) = 1
                    /\ Cardinality(EntriesOf(l2, mrca[1].taxid)) = 1
                    /\ \A k \in EntriesOf(l1, mrca[1].taxid) :
                          l1[k].shared /\ l1[k].rank = mrca[1].rank
                    /\ \A k \in EntriesOf(l2, mrca[1].taxid) :
                          l2[k].shared /\ l2[k].rank = mrca[1].rank

\* C3 witness: two different stored taxids with two common ancestors of different
\* keys, and the MRCA is the one with the smaller key
C3_Witness ==
    /\ ComparedExisting
    /\ result.taxid1 # result.taxid2
    /\ result.response.status = 200
    /\ LET r == result.response.body
       IN  /\ r.comparison.total_common_ancestors >= 2
           /\ r.comparison.common_ancestor # None
           /\ \E k \in 1..Len(r.species1.lineage) :
                 /\ r.species1.lineage[k].shared
                 /\ SpecRankKey(r.species1.lineage[k].rank)
                        > SpecRankKey(r.comparison.common_ancestor[1].rank)

\* C4: a request that names a taxid the store does not hold gets the not-found
\* result: get_comparative_lineage returns the error result when either taxid is
\* absent, get_species_lineage returns the empty list, and both routes answer 404
\* with an 'error' field
C4_AbsentTaxidIsNotFound ==
    /\ (ServedLineage /\ result.taxid \notin StoredTaxids) =>
          /\ get_species_lineage(storeNodes, storeEdges, result.taxid) = <<>>
          /\ result.response.status = 404
          /\ "error" \in DOMAIN result.response.body
    /\ (ServedCompare /\ (result.taxid1 \notin StoredTaxids \/ result.taxid2 \notin StoredTaxids)) =>
          /\ "error" \in DOMAIN get_comparative_lineage(storeNodes, storeEdges,
                                                        result.taxid1, result.taxid2)
          /\ result.response.status = 404
          /\ "error" \in DOMAIN result.response.body

\* C4 witness: a comparison of a stored taxid with an absent one was answered
C4_Witness ==
    /\ ServedCompare
    /\ result.taxid1 \in StoredTaxids
    /\ result.taxid2 \notin StoredTaxids
    /\ result.response.status = 404

\* C5: CompareLineages(a, b) and CompareLineages(b, a) of stored taxids have the
\* same commonSet and the same totalCommonAncestors, and species1 of the one is
\* species2 of the other
C5_ComparisonIsSymmetric ==
    ComparedExisting =>
        /\ result.response.status = 200
        /\ LET r == result.response.body
               swapped == get_comparative_lineage(storeNodes, storeEdges,
                                                  result.taxid2, result.taxid1)
               commonSetOf(c) == TaxidsOf(c.species1.lineage) \cap TaxidsOf(c.species2.lineage)
               sharedOf(c) == {c.species1.lineage[k].taxid :
                                  k \in {j \in 1..Len(c.species1.lineage) :
                                            c.species1.lineage[j].shared}}
           IN  /\ "error" \notin DOMAIN swapped
               /\ commonSetOf(r) = commonSetOf(swapped)
               /\ sharedOf(r) = sharedOf(swapped)
               /\ r.comparison.total_common_ancestors
                      = swapped.comparison.total_common_ancestors
               /\ r.species1 = swapped.species2
               /\ r.species2 = swapped.species1

\* C5 witness: two different stored taxids, one an ancestor of the other
C5_Witness ==
    /\ ComparedExisting
    /\ result.taxid1 # result.taxid2
    /\ result.response.status = 200
    /\ result.response.body.comparison.total_common_ancestors >= 1
    /\ Len(result.response.body.species1.lineage)
           < Len(result.response.body.species2.lineage)

\* C6: an entry of either lineage is shared exactly when its taxid is in both
\* lineages; the shared taxids of the two lineages are the same set, and its
\* size is totalCommonAncestors
C6_SharedIsMembership ==
    (ServedCompare /\ result.response.status = 200) =>
        LET r == result.response.body
            l1 == r.species1.lineage
            l2 == r.species2.lineage
            shared1 == {l1[k].taxid : k \in {j \in 1..Len(l1) : l1[j].shared}}
            shared2 == {l2[k].taxid : k \in {j \in 1..Len(l2) : l2[j].shared}}
        IN  /\ \A k \in 1..Len(l1) : l1[k].shared <=> l1[k].taxid \in TaxidsOf(l2)
            /\ \A k \in 1..Len(l2) : l2[k].shared <=> l2[k].taxid \in TaxidsOf(l1)
            /\ shared1 = shared2
            /\ Cardinality(shared1) = r.comparison.total_common_ancestors

\* C6 witness: a comparison with a shared and an unshared entry in each lineage
C6_Witness ==
    /\ ServedCompare
    /\ result.response.status = 200
    /\ LET l1 == result.response.body.species1.lineage
           l2 == result.response.body.species2.lineage
       IN  /\ \E k \in 1..Len(l1) : l1[k].shared
           /\ \E k \in 1..Len(l1) : ~ l1[k].shared
           /\ \E k \in 1..Len(l2) : ~ l2[k].shared

\* test_comparison.py line 150: the hierarchy the test checks
rank_hierarchy ==
    <<"species", "genus", "subfamily", "family", "suborder", "order", "superorder", "class">>
HierarchyIndex(rank) == CHOOSE k \in 1..Len(rank_hierarchy) : rank_hierarchy[k] = rank

\* the ranks of the hierarchy never decrease along the lineage
SortedByRank(lineage) ==
    \A j, k \in 1..Len(lineage) :
        (j < k /\ lineage[j].rank \in Range(rank_hierarchy)
               /\ lineage[k].rank \in Range(rank_hierarchy))
            => HierarchyIndex(lineage[j].rank) <= HierarchyIndex(lineage[k].rank)

RankOfTaxid(taxid) == storeNodes[CHOOSE k \in 1..Len(storeNodes) : storeNodes[k].taxid = taxid].rank

\* C7: in the comparison of two species each lineage starts with a 'species' entry
\* and is sorted by rank: the ranks of the hierarchy never decrease along it
C7_LineagesSortedByRank ==
    (ComparedExisting /\ RankOfTaxid(result.taxid1) = "species"
                      /\ RankOfTaxid(result.taxid2) = "species") =>
        /\ result.response.status = 200
        /\ LET r == result.response.body
           IN  /\ r.species1.lineage[1].rank = "species"
               /\ r.species2.lineage[1].rank = "species"
               /\ SortedByRank(r.species1.lineage)
               /\ SortedByRank(r.species2.lineage)

-----------------------------------------------------------------------------
(* Name search: the stores searched and the calls of search_species_by_name *)

\* the largest number of stored nodes and the largest limit asked
MaxSearchNodes == 3
MaxLimit == 2

\* names: "Hu", "ahu", "b" as scientific names; none or "hu" as common name
SearchScientificNames == {<<72, 117>>, <<97, 104, 117>>, <<98>>}
SearchCommonNames == {None, Some(<<104, 117>>)}
\* queries: "hU" and "b"
SearchQueries == {<<104, 85>>, <<98>>}

\* a store of n root nodes with taxids 1..n, as a load of such files leaves it
InitSearch ==
    /\ LoaderIdle
    /\ ImportIdle
    /\ result = NoResult
    /\ indexes = {"taxon_taxid_index", "taxon_name_index"}
    /\ lineage_viewer = "viewer"
    /\ storeEdges = <<>>
    /\ \E n \in 0..MaxSearchNodes :
       \E sci \in [1..n -> SearchScientificNames], com \in [1..n -> SearchCommonNames],
          rankOf \in [1..n -> {"species", "genus"}] :
            LET d == [t \in 1..n |-> [taxid |-> t, parent_taxid |-> None, rank |-> rankOf[t]]]
                nm == [t \in 1..n |-> [scientific_name |-> Some(sci[t]), common_name |-> com[t]]]
            IN  storeNodes = loaded_nodes(d, nm)

\* lineage_viewer.search_species_by_name(search_query, limit)
SearchByName ==
    \E search_query \in SearchQueries, limit \in 1..MaxLimit :
        /\ result = NoResult
        /\ \E species \in search_species_by_name(storeNodes, search_query, limit) :
              result' = [op |-> "search", search_query |-> search_query, limit |-> limit,
                         species |-> species]
        /\ UNCHANGED <<storeVars, loaderVars, importVars, lineage_viewer>>

\* the query parameters of the requests: none, " ", " b "
SearchArgs == {None, Some(<<32>>), Some(<<32, 98, 32>>)}

\* GET /api/search, with or without q
ApiSearch ==
    \E q \in SearchArgs :
        /\ result = NoResult
        /\ \E response \in search_species(lineage_viewer, storeNodes, q) :
              result' = [op |-> "api search", q |-> q, response |-> response]
        /\ UNCHANGED <<storeVars, loaderVars, importVars, lineage_viewer>>

NextSearch == SearchByName \/ ApiSearch \/ Respond

SpecSearch == InitSearch /\ [][NextSearch]_vars

\* the tiers of the ordering as the specification words them
SpecTier(entry, query) ==
    LET q == to_lower(query)
    IN  IF entry.common_name # None /\ starts_with(to_lower(entry.common_name[1]), q) THEN 1
        ELSE IF starts_with(to_lower(entry.scientific_name), q) THEN 2
        ELSE 3

\* query is a case-insensitive substring of the scientific or the common name
SpecMatches(entry, query) ==
    \/ contains(to_lower(entry.scientific_name), to_lower(query))
    \/ entry.common_name # None /\ contains(to_lower(entry.common_name[1]), to_lower(query))

\* C8: SearchByName returns at most limit entries, each a species whose scientific
\* or common name holds the query case-insensitively; every stored species that
\* matches, with or without a common name, is returned as far as limit allows;
\* common-name prefix matches come first, then scientific-name prefix matches,
\* then the others, each tier in ascending scientificName order
C8_SearchOrderedAndCapped ==
    result.op = "search" =>
        LET species == result.species
            query == result.search_query
            stored == {k \in 1..Len(storeNodes) :
                          storeNodes[k].rank = "species" /\ SpecMatches(storeNodes[k], query)}
        IN  /\ Len(species) <= result.limit
            /\ Len(species) = IF Cardinality(stored) < result.limit
                              THEN Cardinality(stored) ELSE result.limit
            /\ \A k \in 1..Len(species) :
                  /\ species[k].rank = "species"
                  /\ SpecMatches(species[k], query)
                  /\ \E n \in stored : storeNodes[n].taxid = species[k].taxid
            /\ \A j, k \in 1..Len(species) :
                  j < k =>
                      /\ SpecTier(species[j], query) <= SpecTier(species[k], query)
                      /\ SpecTier(species[j], query) = SpecTier(species[k], query) =>
                            ~ str_less(species[k].scientific_name, species[j].scientific_name)

\* C8 witness: three stored matches capped at two; the first entry matches by its
\* common name only, in another case than the query's, and comes before an entry
\* without a common name
C8_Witness ==
    /\ result.op = "search"
    /\ Len(result.species) = 2
    /\ result.limit = 2
    /\ Cardinality({k \in 1..Len(storeNodes) : search_matches(storeNodes[k], result.search_query)}) = 3
    /\ SpecTier(result.species[1], result.search_query) = 1
    /\ ~ contains(to_lower(result.species[1].scientific_name), to_lower(result.search_query))
    /\ ~ contains(result.species[1].common_name[1], result.search_query)
    /\ SpecTier(result.species[2], result.search_query) = 2
    /\ result.species[2].common_name = None

-----------------------------------------------------------------------------
(* setup.py: one run of run_migration, a step per statement that reads the  *)
(* files or writes the store                                                *)

\* line 325: the taxid verify_migration needs in the store, or its result is None
MacaqueTaxid == 9544

\* the rank a row of the model's nodes.dmp gives a taxid
FileRank(taxid) == RankSeq[(taxid % Len(RankSeq)) + 1]

\* the taxids a row of the model's nodes.dmp may name
FileTaxids == 0..MaxFileTaxid

\* the store an earlier run left: taxid 1 with its child 2
PriorNodes ==
    loaded_nodes(parse_nodes_file(<<NodesRow(1, 1, "genus"), NodesRow(2, 1, "species")>>),
                 parse_names_file(DumpNamesFile))
PriorEdges ==
    loaded_edges(parse_nodes_file(<<NodesRow(1, 1, "genus"), NodesRow(2, 1, "species")>>),
                 parse_names_file(DumpNamesFile))

\* line 416-419: a migrator about to run against an empty store or against the
\* store of an earlier run; the archive it will download holds any nodes.dmp of
\* up to MaxRows rows
InitLoad ==
    /\ ImportIdle
    /\ report = <<>>
    /\ runs = 1
    /\ lineage_viewer = "viewer"
    /\ result = NoResult
    /\ pc = "download"
    /\ \E n \in 0..MaxRows : \E t \in [1..n -> FileTaxids], p \in [1..n -> FileTaxids] :
          nodesFile = [k \in 1..n |-> NodesRow(t[k], p[k], FileRank(t[k]))]
    /\ namesFile = DumpNamesFile
    /\ nodes = <<>> /\ names = <<>>
    /\ i = 0 /\ node_data = <<>> /\ relationship_data = <<>>
    /\ nodeBatches = <<>> /\ edgeBatches = <<>>
    /\ \/ storeNodes = <<>> /\ storeEdges = <<>> /\ indexes = {}
       \/ /\ storeNodes = PriorNodes
          /\ storeEdges = PriorEdges
          /\ indexes = {"taxon_taxid_index", "taxon_name_index"}

\* line 351: download_ncbi_taxonomy extracts the archive
Download ==
    /\ pc = "download"
    /\ pc' = "parse"
    /\ UNCHANGED <<importVars, report, runs,
                   storeVars, lineage_viewer, result, nodesFile, namesFile, nodes, names,
                   i, node_data, relationship_data, nodeBatches, edgeBatches>>

\* line 180-181
ParseFiles ==
    /\ pc = "parse"
    /\ nodes' = parse_nodes_file(nodesFile)
    /\ names' = parse_names_file(namesFile)
    /\ pc' = "clear"
    /\ UNCHANGED <<importVars, report, runs,
                   storeVars, lineage_viewer, result, nodesFile, namesFile,
                   i, node_data, relationship_data, nodeBatches, edgeBatches>>

\* line 145: MATCH ()-[r:PARENT_OF]->() DELETE r
delete_relationships(E) == <<>>

\* line 148 matching no node (a label that no node carries): nothing is deleted
delete_nodes_matching_none(N) == N

\* line 148: MATCH (n:Taxon) DELETE n
delete_nodes(N) == <<>>

\* line 184, 139-156: clear_existing_data
ClearExistingData ==
    /\ pc = "clear"
    /\ storeEdges' = delete_relationships(storeEdges)
    /\ storeNodes' = delete_nodes(storeNodes)
    /\ indexes' = indexes \ {"taxon_taxid_index"}
    /\ pc' = "indexes"
    /\ UNCHANGED <<importVars, report, runs,
                   lineage_viewer, result, nodesFile, namesFile, nodes, names,
                   i, node_data, relationship_data, nodeBatches, edgeBatches>>

\* line 185, 158-169: create_indexes; line 190-195: the node loop is set up
CreateIndexes ==
    /\ pc = "indexes"
    /\ indexes' = indexes \cup {"taxon_taxid_index", "taxon_name_index"}
    /\ i' = 0
    /\ node_data' = <<>>
    /\ pc' = "nodes"
    /\ UNCHANGED <<importVars, report, runs,
                   storeNodes, storeEdges, lineage_viewer, result, nodesFile, namesFile,
                   nodes, names, relationship_data, nodeBatches, edgeBatches>>

\* line 197 without the test i > 0: the chunk is also inserted before item 0
chunk_is_full_from_zero(index) == index % ChunkSize = 0

\* line 197: a full chunk is inserted before item i is added
chunk_is_full(index) == index % ChunkSize = 0 /\ index > 0

\* line 196-222: one iteration of the node loop, on item i (counted from 0)
NodeLoopStep ==
    /\ pc = "nodes"
    /\ i < Len(nodes)
    /\ LET record == node_record(nodes[i + 1], names)
       IN  IF chunk_is_full(i)
           THEN /\ storeNodes' = create_nodes(storeNodes, node_data)
                /\ nodeBatches' = Append(nodeBatches, node_data)
                /\ node_data' = <<record>>
           ELSE /\ node_data' = Append(node_data, record)
                /\ UNCHANGED <<storeNodes, nodeBatches>>
    /\ i' = i + 1
    /\ UNCHANGED <<importVars, report, runs,
                   storeEdges, indexes, lineage_viewer, result, pc, nodesFile, namesFile,
                   nodes, names, relationship_data, edgeBatches>>

\* line 225-234 without the insert: the nodes left in node_data are dropped
remaining_nodes_dropped(N, data) == N

\* line 225-234: the nodes left in node_data are inserted
remaining_nodes_inserted(N, data) == IF data # <<>> THEN create_nodes(N, data) ELSE N

\* line 224-243: the node loop is over; the relationship loop is set up
NodeLoopEnd ==
    /\ pc = "nodes"
    /\ i = Len(nodes)
    /\ storeNodes' = remaining_nodes_inserted(storeNodes, node_data)
    /\ nodeBatches' = IF node_data # <<>> THEN Append(nodeBatches, node_data) ELSE nodeBatches
    /\ relationship_data' = <<>>
    /\ i' = 0
    /\ pc' = "relationships"
    /\ UNCHANGED <<importVars, report, runs,
                   storeEdges, indexes, lineage_viewer, result, nodesFile, namesFile,
                   nodes, names, node_data, edgeBatches>>

\* a committed relationship batch, with the taxids the store held at that moment
edge_batch(data, N) == [data |-> data, stored |-> {N[k].taxid : k \in 1..Len(N)}]

\* line 245-269: one iteration of the relationship loop, on item i (counted from 0)
RelationshipLoopStep ==
    /\ pc = "relationships"
    /\ i < Len(nodes)
    /\ LET info == nodes[i + 1]
           data == IF has_parent(info)
                   THEN Append(relationship_data, relationship_record(info))
                   ELSE relationship_data
       IN  IF Len(data) >= ChunkSize
           THEN /\ storeEdges' = create_relationships(storeNodes, storeEdges, data)
                /\ edgeBatches' = Append(edgeBatches, edge_batch(data, storeNodes))
                /\ relationship_data' = <<>>
           ELSE /\ relationship_data' = data
                /\ UNCHANGED <<storeEdges, edgeBatches>>
    /\ i' = i + 1
    /\ UNCHANGED <<importVars, report, runs,
                   storeNodes, indexes, lineage_viewer, result, pc, nodesFile, namesFile,
                   nodes, names, node_data, nodeBatches>>

\* line 271-281: the relationships left in relationship_data are inserted and
\* load_taxonomy_into_neo4j returns
RelationshipLoopEnd ==
    /\ pc = "relationships"
    /\ i = Len(nodes)
    /\ IF relationship_data # <<>>
       THEN /\ storeEdges' = create_relationships(storeNodes, storeEdges, relationship_data)
            /\ edgeBatches' = Append(edgeBatches, edge_batch(relationship_data, storeNodes))
       ELSE UNCHANGED <<storeEdges, edgeBatches>>
    /\ pc' = "verify"
    /\ UNCHANGED <<importVars, report, runs,
                   storeNodes, indexes, lineage_viewer, result, nodesFile, namesFile,
                   nodes, names, i, node_data, relationship_data, nodeBatches>>

\* line 298, 300, 301: the other taxids verify_migration looks up
HumanTaxid == 9606
CatTaxid == 9685
CatarrhiniTaxid == 9526

\* a line verify_migration prints: what it is about, the taxid and the count it
\* names, each None when the line names none
report_line(kind, taxid, count) == [kind |-> kind, taxid |-> taxid, count |-> count]

\* line 289-294: the two totals
verify_counts(N, E) ==
    <<report_line("Total nodes", None, Some(Len(N))),
      report_line("Total relationships", None, Some(Len(E)))>>

\* line 297-314: one line per test species, found or not
verify_species(N) ==
    LET test_species == <<HumanTaxid, MacaqueTaxid, CatTaxid, CatarrhiniTaxid>>
    IN  [k \in 1..Len(test_species) |->
            report_line(IF match_taxid(N, test_species[k]) # <<>> THEN "found" ELSE "NOT FOUND",
                        Some(test_species[k]), None)]

\* line 320-322, 325-327: collect(a.taxid) over the paths of at most 20 hops
\* that end in a node with this taxid
verify_ancestors(N, E, taxid) ==
    LET species == match_taxid(N, taxid)
        paths == SelectSeq(Flatten([a \in 1..Len(species) |->
                               lineage_paths_from_zero(E, species[a])]),
                           LAMBDA path : Len(path) <= 21)
    IN  [k \in 1..Len(paths) |-> N[paths[k][Len(paths[k])]].taxid]

\* line 318-341: the ancestry test on the row of the query
verify_ancestry(N, E) ==
    LET ancestors1 == verify_ancestors(N, E, HumanTaxid)
        ancestors2 == verify_ancestors(N, E, MacaqueTaxid)
        common_count == Len(SelectSeq(ancestors1, LAMBDA x : x \in Range(ancestors2)))
    IN  <<report_line("Human ancestors", None, Some(Len(ancestors1))),
          report_line("Monkey ancestors", None, Some(Len(ancestors2))),
          report_line("Common ancestors", None, Some(common_count)),
          report_line(IF common_count > 0 THEN "ancestry test PASSED"
                      ELSE "ancestry test FAILED", None, None)>>

\* line 283-341: verify_migration only reads the store.  Its last query groups by
\* ancestors1 over the rows of MATCH (s2:Taxon {taxid: 9544}): with no such node it
\* has no row, .single() is None and subscripting it raises after the lines before
\* were printed
verify_migration(N, E) ==
    LET raises == match_taxid(N, MacaqueTaxid) = <<>>
    IN  [printed |-> verify_counts(N, E) \o verify_species(N) \o
                     (IF raises THEN <<>> ELSE verify_ancestry(N, E)),
         raises |-> raises]

\* line 357: verify_migration; when it raises, run_migration prints the error and
\* calls sys.exit(1) (line 365-369)
VerifyMigration ==
    /\ pc = "verify"
    /\ report' = verify_migration(storeNodes, storeEdges).printed
    /\ pc' = IF verify_migration(storeNodes, storeEdges).raises THEN "exit" ELSE "done"
    /\ UNCHANGED <<importVars, runs, storeVars, lineage_viewer, result, nodesFile, namesFile,
                   nodes, names, i, node_data, relationship_data, nodeBatches, edgeBatches>>

NextLoad ==
    \/ Download
    \/ ParseFiles
    \/ ClearExistingData
    \/ CreateIndexes
    \/ NodeLoopStep
    \/ NodeLoopEnd
    \/ RelationshipLoopStep
    \/ RelationshipLoopEnd
    \/ VerifyMigration

SpecLoad == InitLoad /\ [][NextLoad]_vars

\* load_taxonomy_into_neo4j has returned
LoadCompleted == pc \in {"verify", "done", "exit"}

\* the store of a completed run is what loaded_nodes and loaded_edges give, which
\* is how the stores of Spec and SpecSearch are drawn
LoadedStoreIsRunResult ==
    LoadCompleted => /\ storeNodes = loaded_nodes(nodes, names)
                     /\ storeEdges = loaded_edges(nodes, names)

\* the stored edges as pairs <<parent taxid, child taxid>>
StoredEdgePairs ==
    {<<storeNodes[e[1]].taxid, storeNodes[e[2]].taxid>> : e \in Range(storeEdges)}

\* the pairs <<declared parent, child>> of the parsed nodes whose declared parent
\* is not the node itself
DeclaredEdgePairs ==
    {<<nodes[k].parent_taxid[1], nodes[k].taxid>> :
        k \in {j \in 1..Len(nodes) : nodes[j].parent_taxid # None}}

ParsedTaxids == {nodes[k].taxid : k \in 1..Len(nodes)}

\* C9: after a completed load the stored ParentOf edges are exactly the pairs
\* (declared parent -> child) of the parsed nodes whose declared parent is not
\* the node itself, whatever the order of the rows; a node that declares itself
\* as parent has no inbound edge.  Stated for the dumps in which every declared
\* parent has a row of its own, so that every declared edge can be stored.
C9_EdgesAreDeclaredParents ==
    (LoadCompleted /\ \A e \in DeclaredEdgePairs : e[1] \in ParsedTaxids) =>
        StoredEdgePairs = DeclaredEdgePairs

\* C10: no relationship batch is committed before every node batch of the run:
\* when a batch is committed the store holds every parsed node, so every record
\* of the batch whose two taxids were parsed finds both nodes; and at any moment
\* either no relationship batch was committed or all nodes were
C10_NodesBeforeEdges ==
    /\ \A k \in 1..Len(edgeBatches) : ParsedTaxids \subseteq edgeBatches[k].stored
    /\ edgeBatches # <<>> =>
          /\ Flatten(nodeBatches) = loaded_nodes(nodes, names)
          /\ storeNodes = loaded_nodes(nodes, names)

\* C10 witness: two node batches were committed, then a relationship batch whose
\* child row precedes its parent's row in the file
C10_Witness ==
    /\ Len(nodeBatches) >= 2
    /\ Len(edgeBatches) >= 1
    /\ \E j, k \in 1..Len(nodes) :
          /\ j < k
          /\ nodes[j].parent_taxid = Some(nodes[k].taxid)
          /\ <<nodes[k].taxid, nodes[j].taxid>> \in StoredEdgePairs

-----------------------------------------------------------------------------
(* setup.py: runs of run_migration one after another against the same store *)

\* the largest number of rows of the first archive, and of runs
MaxReloadRows == 2
MaxRuns == 2

\* a later release of the archive: taxid 2 is listed twice, with two parents, the
\* macaque is listed, and taxid 1 names a parent that has no row
NextArchive ==
    <<NodesRow(2, 0, "species"), NodesRow(MacaqueTaxid, MacaqueTaxid, "species"),
      NodesRow(0, 0, "no rank"), NodesRow(2, MacaqueTaxid, "species"),
      NodesRow(1, 7, "genus")>>

\* line 416-419: the first run, as InitLoad with archives of up to MaxReloadRows rows
InitReload ==
    /\ ImportIdle
    /\ report = <<>>
    /\ runs = 1
    /\ lineage_viewer = "viewer"
    /\ result = NoResult
    /\ pc = "download"
    /\ \E n \in 0..MaxReloadRows : \E t \in [1..n -> FileTaxids], p \in [1..n -> FileTaxids] :
          nodesFile = [k \in 1..n |-> NodesRow(t[k], p[k], FileRank(t[k]))]
    /\ namesFile = DumpNamesFile
    /\ nodes = <<>> /\ names = <<>>
    /\ i = 0 /\ node_data = <<>> /\ relationship_data = <<>>
    /\ nodeBatches = <<>> /\ edgeBatches = <<>>
    /\ \/ storeNodes = <<>> /\ storeEdges = <<>> /\ indexes = {}
       \/ /\ storeNodes = PriorNodes
          /\ storeEdges = PriorEdges
          /\ indexes = {"taxon_taxid_index", "taxon_name_index"}

\* line 416-419 once more: the script is run again after a run that returned or
\* exited, on the same archive or on the later release
RunAgain ==
    /\ pc \in {"done", "exit"}
    /\ runs < MaxRuns
    /\ runs' = runs + 1
    /\ pc' = "download"
    /\ nodesFile' \in {nodesFile, NextArchive}
    /\ nodes' = <<>> /\ names' = <<>>
    /\ i' = 0 /\ node_data' = <<>> /\ relationship_data' = <<>>
    /\ nodeBatches' = <<>> /\ edgeBatches' = <<>>
    /\ report' = <<>>
    /\ UNCHANGED <<importVars, storeVars, lineage_viewer, result, namesFile>>

NextReload == NextLoad \/ RunAgain

SpecReload == InitReload /\ [][NextReload]_vars

\* the number of stored ParentOf edges that end in the node with this id
InboundCount(n) == Cardinality({k \in 1..Len(storeEdges) : storeEdges[k][2] = n})

\* C11: after any sequence of completed runs, on any input, every stored node has
\* at most one inbound ParentOf edge and no two stored nodes share a taxid
C11_OneParentOneNodePerTaxid ==
    LoadCompleted =>
        /\ \A n \in 1..Len(storeNodes) : InboundCount(n) <= 1
        /\ \A m, n \in 1..Len(storeNodes) :
              m # n => storeNodes[m].taxid # storeNodes[n].taxid

\* C11 witness: a second run has completed on an archive that lists a taxid twice
\* with two different parents, and the node of that taxid has its inbound edge
C11_Witness ==
    /\ LoadCompleted
    /\ runs = 2
    /\ \E j, k \in 1..Len(nodesFile) :
          /\ j < k
          /\ nodesFile[j].taxid = nodesFile[k].taxid
          /\ nodesFile[j].parent_taxid # nodesFile[k].parent_taxid
          /\ \E n \in 1..Len(storeNodes) :
                storeNodes[n].taxid = nodesFile[k].taxid[1] /\ InboundCount(n) = 1

\* the store a single run on an empty store leaves for the archive of this run
SingleRunNodes == loaded_nodes(parse_nodes_file(nodesFile), parse_names_file(namesFile))
SingleRunEdges == loaded_edges(parse_nodes_file(nodesFile), parse_names_file(namesFile))

\* C12: a run on top of any stored graph, a second run on identical input among
\* them, leaves the graph a single run on an empty store leaves, with the same
\* node and edge counts; the prior nodes and edges are gone before the run
\* writes its first record
C12_RerunLeavesSameGraph ==
    /\ LoadCompleted =>
          /\ storeNodes = SingleRunNodes
          /\ storeEdges = SingleRunEdges
          /\ Len(storeNodes) = Len(SingleRunNodes)
          /\ Len(storeEdges) = Len(SingleRunEdges)
    /\ pc \in {"indexes", "nodes", "relationships"} =>
          /\ storeNodes = Flatten(nodeBatches)
          /\ \A e \in Range(storeEdges) :
                \E k \in 1..Len(edgeBatches) : \E rel \in Range(edgeBatches[k].data) :
                    /\ storeNodes[e[1]].taxid = rel.parent_taxid
                    /\ storeNodes[e[2]].taxid = rel.child_taxid

\* C12 witness: a second run has completed on the archive of the first, on top of
\* the nodes and edges the first run left
C12_Witness ==
    /\ LoadCompleted
    /\ runs = 2
    /\ nodesFile # NextArchive
    /\ storeNodes # <<>>
    /\ storeEdges # <<>>

-----------------------------------------------------------------------------
(* Properties of the graph a load leaves and of what verify_migration reports *)

\* the ids of the parents of the node with this id
ParentIds(n) == {storeEdges[k][1] : k \in {j \in 1..Len(storeEdges) : storeEdges[j][2] = n}}

RECURSIVE AncestorIds(_, _)
\* the ids of the nodes reached from the nodes of S by one to hops ParentOf edges,
\* followed from child to parent
AncestorIds(S, hops) ==
    IF hops = 0 THEN {}
    ELSE LET P == UNION {ParentIds(n) : n \in S}
         IN  P \cup AncestorIds(P, hops - 1)

\* C13: after a completed load the stored graph has no cycle: no node is its own
\* ancestor, and no two nodes are each other's parent
C13_LoadedGraphIsAcyclic ==
    LoadCompleted =>
        /\ \A n \in 1..Len(storeNodes) : n \notin AncestorIds({n}, Len(storeNodes))
        /\ \A m, n \in 1..Len(storeNodes) : ~ (m \in ParentIds(n) /\ n \in ParentIds(m))

\* C14: the validation after a load flags every structural violation: every
\* non-root node (one whose row names a parent other than itself) whose number of
\* inbound ParentOf edges is 0 or at least 2 is reported with its taxid and a count
C14_ValidatorFlagsViolations ==
    pc = "done" =>
        \A k \in 1..Len(nodes) :
            nodes[k].parent_taxid # None =>
                \A n \in 1..Len(storeNodes) :
                    (storeNodes[n].taxid = nodes[k].taxid /\ InboundCount(n) # 1) =>
                        \E line \in Range(report) :
                            /\ line.taxid = Some(nodes[k].taxid)
                            /\ line.count # None

-----------------------------------------------------------------------------
(* setup.py and app.py: the background import.  start_import is two steps, the   *)
(* test of is_running and the assignments that follow it, so that calls made by  *)
(* several request threads interleave as the interpreter lets them.  A thread    *)
(* of _run_import runs a migrator of its own against the shared store; the       *)
(* archives are smaller than chunk_size, so each loop of the load ends in the    *)
(* one "remaining" statement.                                                    *)

\* the most calls of start_import between line 384 and line 387 at a time, and the
\* most _run_import threads alive at a time
MaxCallers == 2
MaxThreads == 2

\* the archives an import may download: one that lists the macaque, one that does not
ImportArchives ==
    {<<NodesRow(MacaqueTaxid, MacaqueTaxid, "species"), NodesRow(1, MacaqueTaxid, "species")>>,
     <<NodesRow(1, 1, "genus"), NodesRow(2, 1, "species")>>}

ThreadsAlive == LET count[k \in 0..Len(ThreadPositions)] ==
                        IF k = 0 THEN 0 ELSE count[k - 1] + threads[ThreadPositions[k]]
                IN  count[Len(ThreadPositions)]

\* a thread moves from one position to the next, starts, or ends
thread_moved(from, to) == [threads EXCEPT ![from] = @ - 1, ![to] = @ + 1]
thread_started == [threads EXCEPT !["init"] = @ + 1]
thread_ended(from) == [threads EXCEPT ![from] = @ - 1]

\* app.py line 12-29 with setup.py line 414: the module is initialised.  The viewer
\* connected and found the store empty, and start_import started a thread; or it
\* found data; or the connection failed and lineage_viewer is None
InitImport ==
    /\ pc = "idle" /\ runs = 0
    /\ nodes = <<>> /\ names = <<>>
    /\ i = 0 /\ node_data = <<>> /\ relationship_data = <<>>
    /\ nodeBatches = <<>> /\ edgeBatches = <<>>
    /\ report = <<>>
    /\ nodesFile \in ImportArchives
    /\ namesFile = DumpNamesFile
    /\ result = NoResult
    /\ is_complete = FALSE /\ error = None /\ checked = 0 /\ outcome = "none"
    /\ \/ /\ lineage_viewer = "viewer"
          /\ storeNodes = <<>> /\ storeEdges = <<>> /\ indexes = {}
          /\ is_running = TRUE
          /\ threads = [p \in Range(ThreadPositions) |-> IF p = "init" THEN 1 ELSE 0]
       \/ /\ lineage_viewer = "viewer"
          /\ storeNodes = PriorNodes /\ storeEdges = PriorEdges
          /\ indexes = {"taxon_taxid_index", "taxon_name_index"}
          /\ is_running = FALSE
          /\ threads = [p \in Range(ThreadPositions) |-> 0]
       \/ /\ lineage_viewer = "None"
          /\ storeNodes \in {<<>>, PriorNodes}
          /\ storeEdges = IF storeNodes = <<>> THEN <<>> ELSE PriorEdges
          /\ indexes = {}
          /\ is_running = FALSE
          /\ threads = [p \in Range(ThreadPositions) |-> 0]

\* setup.py line 384-385: a call of start_import tests is_running; it returns False,
\* or goes on to line 387
StartImportCheck ==
    /\ result = NoResult
    /\ IF is_running
       THEN /\ result' = [op |-> "start_import", returned |-> FALSE]
            /\ UNCHANGED checked
       ELSE /\ checked < MaxCallers
            /\ checked' = checked + 1
            /\ UNCHANGED result
    /\ UNCHANGED <<storeVars, loaderVars, lineage_viewer, is_running, is_complete, error,
                   threads, outcome>>

\* setup.py line 387-395: a call that passed the test sets the fields, starts the
\* thread and returns True
StartImportSet ==
    /\ result = NoResult
    /\ checked > 0
    /\ ThreadsAlive < MaxThreads
    /\ checked' = checked - 1
    /\ is_running' = TRUE
    /\ is_complete' = FALSE
    /\ error' = None
    /\ threads' = thread_started
    /\ result' = [op |-> "start_import", returned |-> TRUE]
    /\ UNCHANGED <<storeVars, loaderVars, lineage_viewer, outcome>>

\* the nodes and the relationship records a migrator prepares from the archive
\* (setup.py line 180-181, 196-222, 245-253)
archive_nodes == parse_nodes_file(nodesFile)
archive_node_data == loaded_nodes(archive_nodes, parse_names_file(namesFile))
archive_relationship_data ==
    LET withParent == SelectSeq(archive_nodes, has_parent)
    IN  [k \in 1..Len(withParent) |-> relationship_record(withParent[k])]

\* setup.py line 401: the thread constructs its migrator
ThreadInit ==
    /\ threads["init"] > 0
    /\ threads' = thread_moved("init", "download")
    /\ UNCHANGED <<storeVars, loaderVars, lineage_viewer, result, is_running, is_complete,
                   error, checked, outcome>>

\* setup.py line 401, 408-411: the constructor raises (no driver for the URI, no
\* temporary directory): _run_import records the message and clears is_running
ThreadInitFails ==
    /\ threads["init"] > 0
    /\ threads' = thread_ended("init")
    /\ error' = Some("migrator not constructed")
    /\ is_running' = FALSE
    /\ outcome' = "init failed"
    /\ UNCHANGED <<storeVars, loaderVars, lineage_viewer, result, is_complete, checked>>

\* setup.py line 351: download_ncbi_taxonomy
ThreadDownload ==
    /\ threads["download"] > 0
    /\ threads' = thread_moved("download", "parse")
    /\ UNCHANGED <<storeVars, loaderVars, lineage_viewer, result, is_running, is_complete,
                   error, checked, outcome>>

\* setup.py line 176-181: the two files are parsed
ThreadParse ==
    /\ threads["parse"] > 0
    /\ threads' = thread_moved("parse", "clear_relationships")
    /\ UNCHANGED <<storeVars, loaderVars, lineage_viewer, result, is_running, is_complete,
                   error, checked, outcome>>

\* setup.py line 145: the first statement of clear_existing_data
ThreadClearRelationships ==
    /\ threads["clear_relationships"] > 0
    /\ storeEdges' = delete_relationships(storeEdges)
    /\ threads' = thread_moved("clear_relationships", "clear_nodes")
    /\ UNCHANGED <<storeNodes, indexes, loaderVars, lineage_viewer, result, is_running,
                   is_complete, error, checked, outcome>>

\* setup.py line 148-154: the nodes are deleted and the index dropped.  Neo4j
\* refuses to delete a node that still has a relationship: when another thread
\* created relationships since line 145 the statement raises (ThreadFails)
ThreadClearNodes ==
    /\ threads["clear_nodes"] > 0
    /\ storeEdges = <<>>
    /\ storeNodes' = delete_nodes(storeNodes)
    /\ indexes' = indexes \ {"taxon_taxid_index"}
    /\ threads' = thread_moved("clear_nodes", "indexes")
    /\ UNCHANGED <<storeEdges, loaderVars, lineage_viewer, result, is_running,
                   is_complete, error, checked, outcome>>

\* setup.py line 158-169: create_indexes
ThreadCreateIndexes ==
    /\ threads["indexes"] > 0
    /\ indexes' = indexes \cup {"taxon_taxid_index", "taxon_name_index"}
    /\ threads' = thread_moved("indexes", "nodes")
    /\ UNCHANGED <<storeNodes, storeEdges, loaderVars, lineage_viewer, result, is_running,
                   is_complete, error, checked, outcome>>

\* setup.py line 193-234: the node loop, ending in the insert of line 226-234
ThreadCreateNodes ==
    /\ threads["nodes"] > 0
    /\ storeNodes' = remaining_nodes_inserted(storeNodes, archive_node_data)
    /\ threads' = thread_moved("nodes", "relationships")
    /\ UNCHANGED <<storeEdges, indexes, loaderVars, lineage_viewer, result, is_running,
                   is_complete, error, checked, outcome>>

\* setup.py line 241-278: the relationship loop, ending in the insert of line 273-278
ThreadCreateRelationships ==
    /\ threads["relationships"] > 0
    /\ storeEdges' = IF archive_relationship_data # <<>>
                     THEN create_relationships(storeNodes, storeEdges, archive_relationship_data)
                     ELSE storeEdges
    /\ threads' = thread_moved("relationships", "verify")
    /\ UNCHANGED <<storeNodes, indexes, loaderVars, lineage_viewer, result, is_running,
                   is_complete, error, checked, outcome>>

\* setup.py line 357-372: verify_migration.  When it raises, run_migration calls
\* sys.exit(1): SystemExit is not an Exception, line 408 does not catch it, and the
\* thread ends with the fields of the initializer as they were
ThreadVerify ==
    /\ threads["verify"] > 0
    /\ report' = verify_migration(storeNodes, storeEdges).printed
    /\ IF verify_migration(storeNodes, storeEdges).raises
       THEN /\ threads' = thread_ended("verify")
            /\ outcome' = "failed"
       ELSE /\ threads' = thread_moved("verify", "complete")
            /\ UNCHANGED outcome
    /\ UNCHANGED <<storeVars, pc, nodesFile, namesFile, nodes, names, i, node_data,
                   relationship_data, nodeBatches, edgeBatches, runs, lineage_viewer,
                   result, is_running, is_complete, error, checked>>

\* setup.py line 404
ThreadComplete ==
    /\ threads["complete"] > 0
    /\ is_complete' = TRUE
    /\ threads' = thread_moved("complete", "finish")
    /\ UNCHANGED <<storeVars, loaderVars, lineage_viewer, result, is_running, error,
                   checked, outcome>>

\* setup.py line 405-406: the thread ends
ThreadFinish ==
    /\ threads["finish"] > 0
    /\ is_running' = FALSE
    /\ threads' = thread_ended("finish")
    /\ outcome' = "completed"
    /\ UNCHANGED <<storeVars, loaderVars, lineage_viewer, result, is_complete, error,
                   checked>>

\* the positions inside run_migration's try block at which a step may raise: the
\* download, the parse (a file missing from the archive), a statement on the store
FailingPositions ==
    {"download", "parse", "clear_relationships", "clear_nodes", "indexes", "nodes",
     "relationships"}

\* setup.py line 365-372: a step of run_migration raises.  The handler prints the
\* error and calls sys.exit(1); SystemExit passes line 408 and the thread ends
ThreadFails ==
    \E p \in FailingPositions :
        /\ threads[p] > 0
        /\ threads' = thread_ended(p)
        /\ outcome' = "failed"
        /\ UNCHANGED <<storeVars, loaderVars, lineage_viewer, result, is_running,
                       is_complete, error, checked>>

\* app.py line 110-127: GET /api/import/status
import_status(viewer, N, running, complete, err) ==
    [status |-> 200,
     body |-> [is_running |-> running,
               is_complete |-> complete,
               has_error |-> err # None,
               error_message |-> err,
               database_empty |-> IF viewer # "None" /\ ~ running
                                  THEN Some(Len(N) = 0) ELSE None]]

ApiImportStatus ==
    /\ result = NoResult
    /\ result' = [op |-> "status",
                  response |-> import_status(lineage_viewer, storeNodes, is_running,
                                             is_complete, error)]
    /\ UNCHANGED <<storeVars, loaderVars, importVars, lineage_viewer>>

NextImport ==
    \/ StartImportCheck
    \/ StartImportSet
    \/ ThreadInit
    \/ ThreadInitFails
    \/ ThreadDownload
    \/ ThreadParse
    \/ ThreadClearRelationships
    \/ ThreadClearNodes
    \/ ThreadCreateIndexes
    \/ ThreadCreateNodes
    \/ ThreadCreateRelationships
    \/ ThreadVerify
    \/ ThreadComplete
    \/ ThreadFinish
    \/ ThreadFails
    \/ ApiLineage
    \/ ApiImportStatus
    \/ Respond

SpecImport == InitImport /\ [][NextImport]_vars

-----------------------------------------------------------------------------
(* Properties of the background import *)

\* a call of start_import returns in this step
StartImportReturns == result = NoResult /\ result'.op = "start_import"

\* C15: under every interleaving of start_import calls with each other and with
\* the import thread, at most one import thread is alive at any time; a call made
\* while an import is running returns False, starts no thread and leaves
\* is_running, is_complete and error as they are; a call made while none is
\* running returns True and sets is_running, clears is_complete and error
C15_AtMostOneImport ==
    /\ [](ThreadsAlive <= 1)
    /\ [][StartImportReturns =>
             IF is_running \/ ThreadsAlive > 0
             THEN /\ result'.returned = FALSE
                  /\ threads' = threads
                  /\ UNCHANGED <<is_running, is_complete, error>>
             ELSE /\ result'.returned = TRUE
                  /\ is_running' = TRUE /\ is_complete' = FALSE /\ error' = None
                  /\ ThreadsAlive' = 1]_vars

\* C16: when an import run has failed, at whatever step, the status comes to
\* report is_running false together with an error message, and start_import
\* returns True again.  Stated on the states in which the thread that failed has
\* ended, no thread is alive and no call is under way: from there only a new call
\* of start_import changes the status, and it returns True only if is_running is
\* false
C16_FailedImportReportsError ==
    (outcome \in {"failed", "init failed"} /\ ThreadsAlive = 0 /\ checked = 0) =>
        /\ is_running = FALSE
        /\ error # None

\* C17: a query served while is_running is true answers 'not ready': neither a
\* lineage read from the store nor the not-found answer computed from it
C17_NoQueryDuringImport ==
    [][(is_running /\ result = NoResult /\ result'.op = "lineage") =>
          result'.response.status \notin {200, 404}]_vars

-----------------------------------------------------------------------------
(* setup.py: the parsers line by line.  A line of a dump file is given by the    *)
(* fields that line.split('\t|\t') leaves: how many there are, the text of those *)
(* the parser converts, and the rank or name class.                              *)

\* the largest number of lines of nodes.dmp and of names.dmp
MaxNodesLines == 2
MaxNamesLines == 2

RECURSIVE digits_value(_)
\* the number a sequence of decimal digits writes
digits_value(ds) ==
    IF ds = <<>> THEN 0 ELSE 10 * digits_value(SubSeq(ds, 1, Len(ds) - 1)) + (ds[Len(ds)] - 48)

\* int(text): blanks around the text are ignored, a sign may lead, one digit or
\* more must follow; anything else raises ValueError (None).  The fields of the
\* model hold no digit separators
py_int(text) ==
    LET t == strip(text)
        signed == t # <<>> /\ Head(t) \in {43, 45}
        ds == IF signed THEN Tail(t) ELSE t
    IN  IF ds # <<>> /\ \A k \in 1..Len(ds) : ds[k] \in 48..57
        THEN Some(IF signed /\ Head(t) = 45 THEN 0 - digits_value(ds) ELSE digits_value(ds))
        ELSE None

\* line 85-90: the fields of a line of nodes.dmp as the parser reads them
nodes_row_of(line) ==
    [nparts |-> line.nparts,
     taxid |-> py_int(strip(line.taxid)),
     parent_taxid |-> py_int(strip(line.parent_taxid)),
     rank |-> line.rank]

\* line 117-122: the fields of a line of names.dmp as the parser reads them
names_row_of(line) ==
    [nparts |-> line.nparts,
     taxid |-> py_int(strip(line.taxid)),
     name |-> strip(line.name),
     name_class |-> line.name_class]

\* the lines of the model's nodes.dmp: one of two fields only, "1|1", "1|x",
\* "x|1", " 2 |1", "-3|1"
NodesLines ==
    {[nparts |-> 2, taxid |-> <<49>>, parent_taxid |-> <<49>>, rank |-> ""],
     [nparts |-> 3, taxid |-> <<49>>, parent_taxid |-> <<49>>, rank |-> "genus"],
     [nparts |-> 3, taxid |-> <<49>>, parent_taxid |-> <<120>>, rank |-> "genus"],
     [nparts |-> 3, taxid |-> <<120>>, parent_taxid |-> <<49>>, rank |-> "species"],
     [nparts |-> 3, taxid |-> <<32, 50, 32>>, parent_taxid |-> <<49>>, rank |-> "species"],
     [nparts |-> 3, taxid |-> <<45, 51>>, parent_taxid |-> <<49>>, rank |-> "species"]}

\* the lines of the model's names.dmp: one of three fields only, and for the
\* taxids "x", "1", " 2 " the names "Ho" (scientific), " hu " and "ma" (common),
\* "Pa" (synonym)
NamesLines ==
    {[nparts |-> 3, taxid |-> <<49>>, name |-> <<72, 111>>, name_class |-> "scientific name"],
     [nparts |-> 4, taxid |-> <<120>>, name |-> <<72, 111>>, name_class |-> "scientific name"],
     [nparts |-> 4, taxid |-> <<49>>, name |-> <<72, 111>>, name_class |-> "scientific name"],
     [nparts |-> 4, taxid |-> <<49>>, name |-> <<32, 104, 117, 32>>, name_class |-> "common name"],
     [nparts |-> 4, taxid |-> <<49>>, name |-> <<109, 97>>, name_class |-> "common name"],
     [nparts |-> 4, taxid |-> <<32, 50, 32>>, name |-> <<80, 97>>, name_class |-> "synonym"]}

\* line 74, 106: the parsers are about to read the two files of an archive
InitParse ==
    /\ ImportIdle
    /\ lineage_viewer = "viewer"
    /\ result = NoResult
    /\ storeNodes = <<>> /\ storeEdges = <<>> /\ indexes = {}
    /\ pc = "parse nodes"
    /\ runs = 1
    /\ \E n \in 0..MaxNodesLines : \E lines \in [1..n -> NodesLines] :
          nodesFile = [k \in 1..n |-> nodes_row_of(lines[k])]
    /\ \E n \in 0..MaxNamesLines : \E lines \in [1..n -> NamesLines] :
          namesFile = [k \in 1..n |-> names_row_of(lines[k])]
    /\ nodes = <<>> /\ names = <<>>
    /\ i = 0 /\ node_data = <<>> /\ relationship_data = <<>>
    /\ nodeBatches = <<>> /\ edgeBatches = <<>>
    /\ report = <<>>

\* line 76-97: one iteration of the loop of parse_nodes_file
ParseNodesLine ==
    /\ pc = "parse nodes"
    /\ i < Len(nodesFile)
    /\ nodes' = parse_nodes_row(nodes, nodesFile[i + 1])
    /\ i' = i + 1
    /\ UNCHANGED <<importVars, storeVars, lineage_viewer, result, pc, nodesFile, namesFile,
                   names, node_data, relationship_data, nodeBatches, edgeBatches, report,
                   runs>>

\* line 99-100, 106: parse_nodes_file returns; parse_names_file starts
ParseNodesEnd ==
    /\ pc = "parse nodes"
    /\ i = Len(nodesFile)
    /\ pc' = "parse names"
    /\ i' = 0
    /\ UNCHANGED <<importVars, storeVars, lineage_viewer, result, nodesFile, namesFile,
                   nodes, names, node_data, relationship_data, nodeBatches, edgeBatches,
                   report, runs>>

\* line 108-134: one iteration of the loop of parse_names_file
ParseNamesLine ==
    /\ pc = "parse names"
    /\ i < Len(namesFile)
    /\ names' = parse_names_row(names, namesFile[i + 1])
    /\ i' = i + 1
    /\ UNCHANGED <<importVars, storeVars, lineage_viewer, result, pc, nodesFile, namesFile,
                   nodes, node_data, relationship_data, nodeBatches, edgeBatches, report,
                   runs>>

\* line 136-137: parse_names_file returns
ParseNamesEnd ==
    /\ pc = "parse names"
    /\ i = Len(namesFile)
    /\ pc' = "node data"
    /\ i' = 0
    /\ UNCHANGED <<importVars, storeVars, lineage_viewer, result, nodesFile, namesFile,
                   nodes, names, node_data, relationship_data, nodeBatches, edgeBatches,
                   report, runs>>

\* line 195-222: the records of the nodes to create, their names resolved
PrepareNodeData ==
    /\ pc = "node data"
    /\ node_data' = loaded_nodes(nodes, names)
    /\ i' = Len(nodes)
    /\ pc' = "prepared"
    /\ UNCHANGED <<importVars, storeVars, lineage_viewer, result, nodesFile, namesFile,
                   nodes, names, relationship_data, nodeBatches, edgeBatches, report, runs>>

NextParse ==
    \/ ParseNodesLine
    \/ ParseNodesEnd
    \/ ParseNamesLine
    \/ ParseNamesEnd
    \/ PrepareNodeData

SpecParse == InitParse /\ [][NextParse]_vars

\* a row the parsers accept: enough fields, and integers where they are read
WellFormedNodesRow(row) == row.nparts >= 3 /\ row.taxid # None /\ row.parent_taxid # None
WellFormedNamesRow(row) == row.nparts >= 4 /\ row.taxid # None

\* the taxids that have an entry in the nodes dict
NodesKeys(d) == {d[k].taxid : k \in 1..Len(d)}

\* C18: parsing never aborts on a bad row.  A nodes row with fewer than three
\* fields or a non-integer taxid or parent_taxid, and a names row with fewer than
\* four fields or a non-integer taxid, leaves the map built so far unchanged; a
\* well-formed row is recorded under its taxid and leaves the other entries as
\* they are; and at the end of a file every well-formed row of it, before or
\* after a bad one, has its entry
C18_BadRowsAreSkipped ==
    /\ [][(pc = "parse nodes" /\ i' = i + 1) =>
             LET row == nodesFile[i + 1]
             IN  IF ~ WellFormedNodesRow(row) THEN nodes' = nodes
                 ELSE /\ \E k \in 1..Len(nodes') :
                            /\ nodes'[k].taxid = row.taxid[1]
                            /\ nodes'[k].rank = row.rank
                            /\ nodes'[k].parent_taxid = IF row.parent_taxid = row.taxid
                                                        THEN None ELSE row.parent_taxid
                      /\ \A k \in 1..Len(nodes) :
                            nodes[k].taxid # row.taxid[1] => nodes[k] \in Range(nodes')]_vars
    /\ [][(pc = "parse names" /\ i' = i + 1) =>
             LET row == namesFile[i + 1]
             IN  IF ~ WellFormedNamesRow(row) THEN names' = names
                 ELSE /\ row.taxid[1] \in DOMAIN names'
                      /\ row.name_class = "scientific name" =>
                            names'[row.taxid[1]].scientific_name = Some(row.name)
                      /\ row.name_class = "common name" =>
                            names'[row.taxid[1]].common_name # None
                      /\ \A t \in DOMAIN names :
                            t # row.taxid[1] => (t \in DOMAIN names' /\ names'[t] = names[t])]_vars
    /\ [](pc \in {"parse names", "node data", "prepared"} =>
             \A k \in 1..Len(nodesFile) :
                 WellFormedNodesRow(nodesFile[k]) => nodesFile[k].taxid[1] \in NodesKeys(nodes))
    /\ [](pc \in {"node data", "prepared"} =>
             \A k \in 1..Len(namesFile) :
                 WellFormedNamesRow(namesFile[k]) => namesFile[k].taxid[1] \in DOMAIN names)

\* C18 witness: both files were parsed to the end; each began with a row whose
\* taxid is no integer, followed by a well-formed row that is recorded
C18_Witness ==
    /\ pc = "prepared"
    /\ Len(nodesFile) = 2 /\ Len(namesFile) = 2
    /\ nodesFile[1].nparts >= 3 /\ nodesFile[1].taxid = None
    /\ WellFormedNodesRow(nodesFile[2])
    /\ nodesFile[2].taxid[1] \in NodesKeys(nodes)
    /\ namesFile[1].nparts >= 4 /\ namesFile[1].taxid = None
    /\ WellFormedNamesRow(namesFile[2])
    /\ namesFile[2].taxid[1] \in DOMAIN names

\* the well-formed rows of names.dmp of this taxid and this name class, by position
NamesRowsOf(taxid, name_class) ==
    {k \in 1..Len(namesFile) :
        /\ WellFormedNamesRow(namesFile[k])
        /\ namesFile[k].taxid[1] = taxid
        /\ namesFile[k].name_class = name_class}

\* C19: every node the loader creates has a scientificName, the name of a
\* 'scientific name' row of its taxid, or 'Unknown_<taxid>' when names.dmp has no
\* such row; its commonName is the name of the first 'common name' row of its
\* taxid in file order, or absent when there is none
C19_NodeNames ==
    pc = "prepared" =>
        \A n \in 1..Len(node_data) :
            LET record == node_data[n]
                scientific == NamesRowsOf(record.taxid, "scientific name")
                common == NamesRowsOf(record.taxid, "common name")
            IN  /\ IF scientific = {}
                   THEN record.scientific_name = UnknownPrefix \o Str(record.taxid)
                   ELSE \E k \in scientific : record.scientific_name = namesFile[k].name
                /\ IF common = {}
                   THEN record.common_name = None
                   ELSE LET first == CHOOSE k \in common : \A j \in common : k <= j
                        IN  record.common_name = Some(namesFile[first].name)

\* C19 witness: a node whose taxid has two 'common name' rows with different names
\* and no 'scientific name' row: it carries the first common name and the
\* synthesized scientific name
C19_Witness ==
    /\ pc = "prepared"
    /\ \E n \in 1..Len(node_data) :
          /\ NamesRowsOf(node_data[n].taxid, "common name") = {1, 2}
          /\ namesFile[1].name # namesFile[2].name
          /\ node_data[n].common_name = Some(namesFile[1].name)
          /\ node_data[n].scientific_name = UnknownPrefix \o Str(node_data[n].taxid)

-----------------------------------------------------------------------------
(* Properties of the search route *)

\* C20: a search request without a query parameter, q missing or blank, is
\* rejected with status 400
C20_SearchWithoutQueryIsRejected ==
    (result.op = "api search" /\ (result.q = None \/ strip(result.q[1]) = <<>>)) =>
        result.response.status = 400

-----------------------------------------------------------------------------
(* setup.py: the batches of the node phase and of the relationship phase *)

\* line 198-222: the node records of the parsed nodes, in the order of the loop
NodeRecords == [k \in 1..Len(nodes) |-> node_record(nodes[k], names)]

\* line 249-255: the relationship records the loop builds, in its order
EdgeRecords ==
    LET with_parent == SelectSeq(nodes, has_parent)
    IN  [k \in 1..Len(with_parent) |-> relationship_record(with_parent[k])]

\* the records of the committed relationship batches, batch after batch
EdgeBatchRecords == Flatten([k \in 1..Len(edgeBatches) |-> edgeBatches[k].data])

\* the number of places, over all batches, at which this record was submitted
SubmittedCount(batches, record) ==
    Cardinality({<<b, k>> \in (1..Len(batches)) \X (1..ChunkSize) :
                    k <= Len(batches[b]) /\ batches[b][k] = record})

\* C21: whatever the number of parsed nodes, every batch the node phase and the
\* relationship phase submit is non-empty and holds at most ChunkSize records,
\* and once the load has returned every node record and every relationship
\* record was submitted in exactly one batch, in the order of the loop
C21_EveryRecordInOneBatch ==
    /\ \A k \in 1..Len(nodeBatches) :
          nodeBatches[k] # <<>> /\ Len(nodeBatches[k]) <= ChunkSize
    /\ \A k \in 1..Len(edgeBatches) :
          edgeBatches[k].data # <<>> /\ Len(edgeBatches[k].data) <= ChunkSize
    /\ LoadCompleted =>
          /\ Flatten(nodeBatches) = NodeRecords
          /\ EdgeBatchRecords = EdgeRecords
          /\ \A k \in 1..Len(NodeRecords) :
                SubmittedCount(nodeBatches, NodeRecords[k]) = 1
          /\ \A k \in 1..Len(EdgeRecords) :
                SubmittedCount([b \in 1..Len(edgeBatches) |-> edgeBatches[b].data],
                               EdgeRecords[k]) = 1

\* C21 witness: a load has returned whose node count is twice the chunk size, in
\* two full node batches and a full relationship batch
C21_Witness ==
    /\ LoadCompleted
    /\ Len(nodes) = 2 * ChunkSize
    /\ Len(nodeBatches) = 2
    /\ \A k \in 1..2 : Len(nodeBatches[k]) = ChunkSize
    /\ \E k \in 1..Len(edgeBatches) : Len(edgeBatches[k].data) = ChunkSize

-----------------------------------------------------------------------------
(* models.py: the common ancestor get_comparative_lineage picks *)

\* every stored node has at most one parent and is not its own ancestor
WellFormedForest ==
    \A n \in 1..Len(storeNodes) :
        /\ Cardinality(ParentIds(n)) <= 1
        /\ n \notin AncestorIds({n}, Len(storeNodes))

\* the ids of the stored nodes with this taxid
IdsOfTaxid(taxid) == {n \in 1..Len(storeNodes) : storeNodes[n].taxid = taxid}

\* the taxids of the proper ancestors of the nodes with this taxid
ProperAncestorTaxids(taxid) ==
    {storeNodes[n].taxid : n \in AncestorIds(IdsOfTaxid(taxid), Len(storeNodes))}

\* C22: in a well-formed forest the MRCA that CompareLineages(a, b) returns for
\* stored taxids is the deepest common ancestor: every other element of commonSet
\* is a proper ancestor of it, whatever the ranks of the nodes
C22_MrcaIsDeepestCommonAncestor ==
    (ComparedExisting /\ WellFormedForest) =>
        /\ result.response.status = 200
        /\ LET r == result.response.body
               commonSet == TaxidsOf(r.species1.lineage) \cap TaxidsOf(r.species2.lineage)
               mrca == r.comparison.common_ancestor
           IN  mrca # None =>
                   \A c \in commonSet \ {mrca[1].taxid} :
                       c \in ProperAncestorTaxids(mrca[1].taxid)

\* C23: for every pair of stored taxids a, b, CompareLineages(a, b) and
\* CompareLineages(b, a) return the same MRCA taxid (or both none), also when
\* several common ancestors have the same minimal rank-order key
C23_MrcaIsSymmetric ==
    ComparedExisting =>
        /\ result.response.status = 200
        /\ LET swapped == get_comparative_lineage(storeNodes, storeEdges,
                                                  result.taxid2, result.taxid1)
               mrca == result.response.body.comparison.common_ancestor
           IN  /\ "error" \notin DOMAIN swapped
               /\ (mrca = None) <=> (swapped.comparison.common_ancestor = None)
               /\ mrca # None =>
                     mrca[1].taxid = swapped.comparison.common_ancestor[1].taxid

-----------------------------------------------------------------------------
(* setup.py, app.py: a command-line migration and the background import of the *)
(* application, two processes, run against the same store at the same time    *)

\* app.py line 12-29: the application found the store empty and started its import
\* thread; setup.py line 416-419: main() starts a run of run_migration in a process
\* of its own.  Both download the same archive
InitOverlap ==
    /\ pc = "download" /\ runs = 1
    /\ nodes = <<>> /\ names = <<>>
    /\ i = 0 /\ node_data = <<>> /\ relationship_data = <<>>
    /\ nodeBatches = <<>> /\ edgeBatches = <<>>
    /\ report = <<>>
    /\ nodesFile \in ImportArchives
    /\ namesFile = DumpNamesFile
    /\ result = NoResult
    /\ lineage_viewer = "viewer"
    /\ storeNodes = <<>> /\ storeEdges = <<>> /\ indexes = {}
    /\ is_running = TRUE /\ is_complete = FALSE /\ error = None
    /\ checked = 0 /\ outcome = "none"
    /\ threads = [p \in Range(ThreadPositions) |-> IF p = "init" THEN 1 ELSE 0]

\* the steps of the command-line run (NextLoad) and of the import thread
NextOverlap ==
    \/ NextLoad
    \/ ThreadInit
    \/ ThreadInitFails
    \/ ThreadDownload
    \/ ThreadParse
    \/ ThreadClearRelationships
    \/ ThreadClearNodes
    \/ ThreadCreateIndexes
    \/ ThreadCreateNodes
    \/ ThreadCreateRelationships
    \/ ThreadVerify
    \/ ThreadComplete
    \/ ThreadFinish
    \/ ThreadFails

SpecOverlap == InitOverlap /\ [][NextOverlap]_vars

\* C24: when two ingestion runs overlapped in time against the same store and
\* both have ended, every taxid is stored once and every stored node has at most
\* one inbound ParentOf edge
C24_OverlappingRunsKeepInvariants ==
    (LoadCompleted /\ ThreadsAlive = 0) =>
        /\ \A m, n \in 1..Len(storeNodes) :
              m # n => storeNodes[m].taxid # storeNodes[n].taxid
        /\ \A n \in 1..Len(storeNodes) : InboundCount(n) <= 1

-----------------------------------------------------------------------------
(* app.py, setup.py: what /api/import/status reports while an import runs *)

\* C25: in every answer of importStatus, under any interleaving with the import
\* thread, is_running and is_complete are not both true, and is_complete and an
\* error are not both set
C25_StatusFlagsExclusive ==
    result.op = "status" =>
        LET body == result.response.body
        IN  /\ ~ (body.is_running /\ body.is_complete)
            /\ ~ (body.is_complete /\ body.has_error)

-----------------------------------------------------------------------------
(* setup.py: a run of run_migration in which a step raises *)

\* the positions of a run at which a statement may raise: the download or the
\* extraction (line 351), the missing-file check or a parser (line 176-181), a
\* statement on the store (line 184-278)
RunFailingPositions == {"download", "parse", "clear", "indexes", "nodes", "relationships"}

\* line 171-185 with clear_existing_data called before the files are parsed: when
\* the missing-file check or a parser raises, the store was cleared already
failed_step_store_clear_first(position, N, E) ==
    IF position \in {"parse", "clear"}
    THEN {<<N, E>>, <<N, delete_relationships(E)>>,
          <<delete_nodes(N), delete_relationships(E)>>}
    ELSE {<<N, E>>}

\* the stores <<nodes, edges>> a raising step may leave.  Line 351 and line 176-181
\* hold no statement on the store; clear_existing_data (line 139-156) may raise
\* before its first DELETE or between the two; a raising statement of the loops
\* writes nothing itself
failed_step_store(position, N, E) ==
    IF position = "clear"
    THEN {<<N, E>>, <<N, delete_relationships(E)>>}
    ELSE {<<N, E>>}

\* line 365-372: a step of the run raises; run_migration prints the error, closes
\* the driver and calls sys.exit(1)
RunFails ==
    /\ pc \in RunFailingPositions
    /\ \E s \in failed_step_store(pc, storeNodes, storeEdges) :
          /\ storeNodes' = s[1]
          /\ storeEdges' = s[2]
    /\ pc' = "exit"
    /\ UNCHANGED <<importVars, report, runs, indexes, lineage_viewer, result, nodesFile,
                   namesFile, nodes, names, i, node_data, relationship_data, nodeBatches,
                   edgeBatches>>

NextFailure == NextReload \/ RunFails

SpecFailure == InitReload /\ [][NextFailure]_vars

\* C26: a run that fails during the download, the extraction, the missing-file
\* check or the parsing leaves the stored graph unchanged: no step taken before
\* both files are parsed, a raising one included, changes the store, and the
\* stored nodes and edges change only once both dump files were parsed
C26_FailureBeforeParseKeepsGraph ==
    [][/\ pc \in {"download", "parse"} => UNCHANGED storeVars
       /\ (storeNodes' # storeNodes \/ storeEdges' # storeEdges) =>
              /\ pc \notin {"download", "parse"}
              /\ nodes = parse_nodes_file(nodesFile)
              /\ names = parse_names_file(namesFile)]_vars

\* C26 witness: a first run on an archive with rows, against the store an earlier
\* run left, has exited before it parsed anything and printed no report, and the
\* store still holds the earlier graph
C26_Witness ==
    /\ pc = "exit"
    /\ runs = 1
    /\ report = <<>>
    /\ nodesFile # <<>>
    /\ nodes = <<>>
    /\ storeNodes = PriorNodes
    /\ storeEdges = PriorEdges

-----------------------------------------------------------------------------
(* app.py, models.py: the start-up check of the application *)

\* models.py line 32-40: count(n) = 0, and True when the query raises
is_database_empty(N, query_raises) == IF query_raises THEN TRUE ELSE Len(N) = 0

\* the application is about to be imported: the store is empty or holds the graph
\* of an earlier run, the initializer is as constructed (setup.py line 377-380, 414)
InitStartup ==
    /\ pc = "startup" /\ runs = 0
    /\ nodes = <<>> /\ names = <<>>
    /\ i = 0 /\ node_data = <<>> /\ relationship_data = <<>>
    /\ nodeBatches = <<>> /\ edgeBatches = <<>>
    /\ report = <<>>
    /\ nodesFile \in ImportArchives
    /\ namesFile = DumpNamesFile
    /\ result = NoResult
    /\ lineage_viewer = "None"
    /\ is_running = FALSE /\ is_complete = FALSE /\ error = None
    /\ checked = 0 /\ outcome = "none"
    /\ threads = [p \in Range(ThreadPositions) |-> 0]
    /\ \/ storeNodes = <<>> /\ storeEdges = <<>> /\ indexes = {}
       \/ /\ storeNodes = PriorNodes
          /\ storeEdges = PriorEdges
          /\ indexes = {"taxon_taxid_index", "taxon_name_index"}

\* app.py line 12-29: the viewer connects or raises (lineage_viewer = None); when
\* it connected, is_database_empty is asked, its query answering or raising, and
\* start_import (setup.py line 382-395) is called when it returns True
ModuleInit ==
    /\ pc = "startup"
    /\ pc' = "idle"
    /\ \E connects \in BOOLEAN, query_raises \in BOOLEAN :
          IF ~ connects
          THEN /\ lineage_viewer' = "None"
               /\ UNCHANGED <<is_running, is_complete, error, threads>>
          ELSE /\ lineage_viewer' = "viewer"
               /\ IF is_database_empty(storeNodes, query_raises)
                  THEN /\ is_running' = TRUE
                       /\ is_complete' = FALSE
                       /\ error' = None
                       /\ threads' = thread_started
                  ELSE UNCHANGED <<is_running, is_complete, error, threads>>
    /\ UNCHANGED <<storeVars, result, nodesFile, namesFile, nodes, names, i, node_data,
                   relationship_data, nodeBatches, edgeBatches, report, runs, checked,
                   outcome>>

\* the application serves /api/import/status once it is initialised
StartupImportStatus == pc = "idle" /\ ApiImportStatus

\* and the lineage route
StartupLineage == pc = "idle" /\ ApiLineage

StartupRespond == pc = "idle" /\ Respond

NextStartup ==
    \/ ModuleInit
    \/ ThreadInit
    \/ ThreadInitFails
    \/ ThreadDownload
    \/ ThreadParse
    \/ ThreadClearRelationships
    \/ ThreadClearNodes
    \/ ThreadCreateIndexes
    \/ ThreadCreateNodes
    \/ ThreadCreateRelationships
    \/ ThreadVerify
    \/ ThreadComplete
    \/ ThreadFinish
    \/ ThreadFails
    \/ StartupImportStatus
    \/ StartupLineage
    \/ StartupRespond

SpecStartup == InitStartup /\ [][NextStartup]_vars

\* C27: the start-up check starts the destructive import only when the store
\* holds no Taxon node: when the store holds data as the application is
\* initialised, also when the emptiness query raises, no import is started, so
\* the stored graph is not cleared
C27_StartupImportOnlyOnEmptyStore ==
    [][(pc = "startup" /\ pc' = "idle" /\ storeNodes # <<>>) =>
          (is_running' = FALSE /\ ThreadsAlive' = 0)]_vars

====
